---- MODULE Spec2Model ----
(***************************************************************************)
(* A model of the blab / go-ezipc RPC fabric.  The caller side (Call,      *)
(* intercept, getBucket) is src/request.go; the receiving side             *)
(* (switchboard, route, send_err, setBusy, unsetBusy, busyCheck,           *)
(* add_route, find_route, close, send) is src/unnamed/part_000; the reader *)
(* (reciever) and the dialer/listener are src/blab.go; the handler wrapper *)
(* (wrapFunc) and RegisterName are src/unnamed/part_005.                   *)
(*                                                                         *)
(* Nodes are processes.  Every node runs the same code.  A connection is a *)
(* pair of endpoints, one per node, each with the queue of frames its      *)
(* owner has still to read.                                                *)
(***************************************************************************)
EXTENDS Integers, Sequences, FiniteSets, TLC

\* ---------------------------------------------------------------- bounds
\* The largest tag, standing for int32(1<<31 - 1).
MaxTag == 5
\* Concurrent Calls issued by the consumer.
NCalls == 2
\* Frames an endpoint can hold unread; a writer blocks on a full queue.
MaxQueue == 2
\* Liveness probes one Call sends before the model stops counting them.
MaxProbes == 1
\* Frames the open environment's peer writes.
MaxInject == 1
\* Handler goroutines a node runs at a time.
MaxTasks == 3
\* Frames the broker of the producer alone writes.
MaxServe == 3
\* Frames the two peers of the broker alone write.
MaxHub == 3
\* Parts of the frames handed to decMessage alone.
MaxParts == 7
\* The connection limit New sets, standing for 256.
Limit == 2
\* Connections the accept loop is offered.
MaxAccepts == 4
\* Calls of SetLimiter after New.
MaxResize == 1

\* ------------------------------------------------------------- constants
NIL == "nil"
ErrFail == "Request failed, service unavailable."
ErrBadTag == "Duplicate tag detected."
ErrClosed == "Connection closed."
\* The text of a write error on a stream whose peer is gone (EPIPE).
ErrPipe == "write: broken pipe"
\* json.Unmarshal of an empty payload.
ErrJSON == "unexpected end of JSON input"

Nodes == {"B", "P", "C"}
\* Each process's address string; the node's name stands for it.
myAddr(n) == n
\* The names frames are addressed to or announce.
Names == {"", "B", "P", "C", "X", "Echo", "Nope"}
\* The socket endpoints: <<owner, peer>>.
Conns == {<<"B", "P">>, <<"P", "B">>, <<"B", "C">>, <<"C", "B">>}
Owner(c) == c[1]
Peer(c) == <<c[2], c[1]>>
\* The synthetic connection RegisterName makes for a local function.
ExecConn(name) == <<"exec", name>>
ExecConns == {ExecConn("Echo")}
NoConn == <<NIL, NIL>>
AllConns == Conns \cup ExecConns
Calls == 1 .. NCalls
\* Payload values: "" is the empty payload, the others encode a value.
Payloads == {"", "seed", "v1", "v2", "v3"}
ArgOf(k) == IF k = 1 THEN "v1" ELSE IF k = 2 THEN "v2" ELSE "v3"

VARIABLES
    alive,      \* alive[n]: the process runs
    listening,  \* listening[n]: n has bound the socket path
    uplink,     \* router.uplink
    connMap,    \* router.connMap: name -> connection
    routes,     \* connection.routes, as the set of the names in the list
    connState,  \* "none" (not made), "open", "closed"
    inq,        \* inq[c]: frames written by the peer, not yet read on c
    reader,     \* reciever's position on each endpoint
    tagMap,     \* router.tagMap: tag -> bucket, -tag -> busy mark
    tagMapLock, \* who holds router.tagMapLock for good
    tasks,      \* the handler goroutines route() has started, and for
                \* each the frames it has written (replies)
    call,       \* each Call's frame: position, locals, result, and what
                \* is observed of it: cut (its producer ended while it
                \* waited), served (a handler goroutine took its request)
    injected,   \* frames the open environment's peer has written
    wire,       \* one stream as bytes: the frames written on it, the bytes
                \* not yet read, the reader's pbuf, the messages it has
                \* handed to the switchboard, and its error
    sockets,    \* the socket path: the listener its file leads to, and each
                \* node's position in Listen
    limiter,    \* router.limiter: the channels made for it, their tokens,
                \* the accept loop and the readers it started
    sendLock    \* connection.sendLock of one connection, its senders and
                \* the bytes they have written

\* What the host gives the processes and one connection's write side.
host == <<sockets, limiter, sendLock>>

vars == <<alive, listening, uplink, connMap, routes, connState, inq, reader,
          tagMap, tagMapLock, tasks, call, injected, wire, host>>

\* ------------------------------------------------------------------ maps
MapPut(m, k, v) == [x \in (DOMAIN m) \cup {k} |-> IF x = k THEN v ELSE m[x]]
MapDel(m, k) == [x \in (DOMAIN m) \ {k} |-> m[x]]
EmptyMap == [x \in {} |-> 0]
RemoveAt(s, i) == [j \in 1 .. (Len(s) - 1) |-> IF j < i THEN s[j] ELSE s[j + 1]]

\* A msg: the six wire fields and the connection it arrived on.
Msg(dst, src, err, tag, va1, va2, conn) ==
    [Dst |-> dst, Src |-> src, Err |-> err, Tag |-> tag, Va1 |-> va1,
     Va2 |-> va2, conn |-> conn]
\* What send writes: the six fields, without conn.
Frame(m) ==
    [Dst |-> m.Dst, Src |-> m.Src, Err |-> m.Err, Tag |-> m.Tag, Va1 |-> m.Va1,
     Va2 |-> m.Va2]
\* What reciever makes of a frame read on c.
Received(f, c) == Msg(f.Dst, f.Src, f.Err, f.Tag, f.Va1, f.Va2, c)

\* ------------------------------------------------------------- the wire
\* Bytes are one-character strings; a string is a sequence of bytes.  US
\* is 0x1F, the field separator, and EOT is 0x04, the end of a frame.
US == "US"
EOT == "EOT"
DigitChars == <<"0", "1", "2", "3", "4", "5", "6", "7", "8", "9">>
Letters == {"a", "b", "x", "o"}
Alphabet ==
    Letters \cup {DigitChars[i] : i \in 1 .. 10} \cup {"-", "+", US, EOT}

MaxInt32 == 2147483647
MinInt32 == (0 - MaxInt32) - 1

\* fmt's %d: an optional minus sign and the decimal digits.
RECURSIVE Digits(_)
Digits(n) ==
    IF n < 10 THEN <<DigitChars[n + 1]>>
    ELSE Digits(n \div 10) \o <<DigitChars[(n % 10) + 1]>>
\* The digits of the magnitude of n <= 0 (the magnitude of the least int32
\* is no int32).
RECURSIVE DigitsNeg(_)
DigitsNeg(n) ==
    IF n > 0 - 10 THEN <<DigitChars[(0 - n) + 1]>>
    ELSE LET d == (10 - (n % 10)) % 10
         IN  DigitsNeg((n + d) \div 10) \o <<DigitChars[d + 1]>>
FormatInt(n) == IF n < 0 THEN <<"-">> \o DigitsNeg(n) ELSE Digits(n)

\* The five-field format of src/connection.go, the tag first.
Sprintf_TagFirst(m) ==
    FormatInt(m.Tag) \o <<US>> \o m.Dst \o <<US>> \o m.Err \o <<US>> \o m.Va1
        \o <<US>> \o m.Va2 \o <<EOT>>

\* The bytes send writes for a message: the six fields in the format
\* "%s\x1f%s\x1f%s\x1f%d\x1f%s\x1f%s\x04".
Sprintf(m) ==
    m.Dst \o <<US>> \o m.Src \o <<US>> \o m.Err \o <<US>> \o FormatInt(m.Tag)
        \o <<US>> \o m.Va1 \o <<US>> \o m.Va2 \o <<EOT>>

\* The index of the first byte b in s from i on, 0 when there is none.
RECURSIVE IndexByte(_, _, _)
IndexByte(s, b, i) ==
    IF i > Len(s) THEN 0 ELSE IF s[i] = b THEN i ELSE IndexByte(s, b, i + 1)

\* strings.Split(s, "\x1f").
RECURSIVE Split(_)
Split(s) ==
    LET i == IndexByte(s, US, 1)
    IN  IF i = 0 THEN <<s>>
        ELSE <<SubSeq(s, 1, i - 1)>> \o Split(SubSeq(s, i + 1, Len(s)))

\* The value of a digit byte in a base, -1 for a byte that is no digit of
\* the base.
DigitVal(ch, base) ==
    LET v == IF \E d \in 1 .. 10 : DigitChars[d] = ch
             THEN (CHOOSE d \in 1 .. 10 : DigitChars[d] = ch) - 1
             ELSE IF ch = "a" THEN 10 ELSE IF ch = "b" THEN 11 ELSE -1
    IN  IF v >= 0 /\ v < base THEN v ELSE -1

\* The digits of s in the base, most significant first, summed up as the
\* negated value acc (so that the magnitude 1<<31 fits): 1 on a byte that
\* is no digit, 2 once the magnitude passes 1<<31.
RECURSIVE Accumulate(_, _, _)
Accumulate(s, base, acc) ==
    IF s = <<>> THEN acc
    ELSE LET v == DigitVal(Head(s), base)
             q == (MaxInt32 - v) \div base
             r == (MaxInt32 - v) % base
             limit == IF r = base - 1 THEN q + 1 ELSE q
         IN  IF v < 0 THEN 1
             ELSE IF acc = MinInt32 \/ (0 - acc) > limit THEN 2
             ELSE Accumulate(Tail(s), base, acc * base - v)

ErrSyntax == "invalid syntax"
ErrRange == "value out of range"

\* strconv.ParseInt(s, 0, 32): a sign, then with base 0 the prefix picks
\* the base (0x 16, 0b 2, 0o or a leading 0 8, else 10), then the digits;
\* the value must fit an int32.
ParseInt(s) ==
    LET neg == s # <<>> /\ Head(s) = "-"
        signed == s # <<>> /\ Head(s) \in {"-", "+"}
        u == IF signed THEN Tail(s) ELSE s
        pre == Len(u) >= 2 /\ u[1] = "0"
        base == IF pre /\ u[2] = "x" THEN 16
                ELSE IF pre /\ u[2] = "b" THEN 2
                ELSE IF pre THEN 8 ELSE 10
        body == IF pre /\ u[2] \in {"x", "b", "o"} THEN SubSeq(u, 3, Len(u))
                ELSE IF pre THEN Tail(u) ELSE u
        v == Accumulate(body, base, 0)
    IN  IF u = <<>> \/ body = <<>> \/ v = 1
        THEN [val |-> 0, err |-> ErrSyntax]
        ELSE IF v = 2 \/ (~neg /\ v = MinInt32)
        THEN [val |-> 0, err |-> ErrRange]
        ELSE [val |-> IF neg THEN v ELSE 0 - v, err |-> ""]

ErrIncomplete == "Incomplete or corrupted message"
\* A message as it is on the wire: every field but Tag a sequence of bytes.
WireMsg(dst, src, err, tag, va1, va2) ==
    [Dst |-> dst, Src |-> src, Err |-> err, Tag |-> tag, Va1 |-> va1,
     Va2 |-> va2]

\* decMessage: split at the separators; fewer than six parts is an error,
\* parts after the sixth are ignored; the fourth part is the tag.
decMessage(in) ==
    LET msgPart == Split(in)
    IN  IF Len(msgPart) < 6
        THEN [out |-> WireMsg(<<>>, <<>>, <<>>, 0, <<>>, <<>>),
              err |-> ErrIncomplete]
        ELSE LET tag == ParseInt(msgPart[4])
             IN  IF tag.err # ""
                 THEN [out |-> WireMsg(msgPart[1], msgPart[2], msgPart[3], 0,
                                       <<>>, <<>>),
                       err |-> tag.err]
                 ELSE [out |-> WireMsg(msgPart[1], msgPart[2], msgPart[3],
                                       tag.val, msgPart[5], msgPart[6]),
                       err |-> ""]

\* findSplit: the number of bytes before the first EOT, all of them when
\* there is none.
findSplit(in) ==
    LET i == IndexByte(in, EOT, 1) IN IF i = 0 THEN Len(in) ELSE i - 1

\* The loop that keeps a rest only when more than one byte follows the
\* EOT and one more.
RECURSIVE reciever_loop_short(_, _)
reciever_loop_short(pbuf, got) ==
    IF IndexByte(pbuf, EOT, 1) = 0
    THEN [pbuf |-> pbuf, got |-> got, err |-> ""]
    ELSE LET s == findSplit(pbuf)
             d == decMessage(SubSeq(pbuf, 1, s))
         IN  IF d.err # ""
             THEN [pbuf |-> pbuf, got |-> got, err |-> d.err]
             ELSE IF Len(pbuf) - s > 2
             THEN reciever_loop_short(SubSeq(pbuf, s + 2, Len(pbuf)),
                                      Append(got, d.out))
             ELSE reciever_loop_short(<<>>, Append(got, d.out))

\* The inner loop of reciever: while pbuf holds an EOT, decode the bytes
\* before it and hand the message to the switchboard (got), then go on
\* with what follows the EOT; a decoding error ends the reader.
RECURSIVE reciever_loop(_, _)
reciever_loop(pbuf, got) ==
    IF IndexByte(pbuf, EOT, 1) = 0
    THEN [pbuf |-> pbuf, got |-> got, err |-> ""]
    ELSE LET s == findSplit(pbuf)
             d == decMessage(SubSeq(pbuf, 1, s))
         IN  IF d.err # ""
             THEN [pbuf |-> pbuf, got |-> got, err |-> d.err]
             ELSE IF Len(pbuf) - s > 1
             THEN reciever_loop(SubSeq(pbuf, s + 2, Len(pbuf)),
                                Append(got, d.out))
             ELSE reciever_loop(<<>>, Append(got, d.out))

\* No byte stream is modelled.
NoWire ==
    [sent |-> <<>>, stream |-> <<>>, pbuf |-> <<>>, got |-> <<>>, err |-> ""]

\* No Listen is in progress on the socket path.
NoSockets ==
    [file |-> "none", pc |-> [n \in Nodes |-> "idle"],
     seen |-> [n \in Nodes |-> FALSE], server |-> [n \in Nodes |-> "none"]]
\* The channels r.limiter has held: 1 the one New made, then one for each
\* call of SetLimiter.  No accept loop is modelled.
Chans == 1 .. (MaxResize + 1)
NoLimiter ==
    [cur |-> 1, cap |-> [ch \in Chans |-> 0], tokens |-> [ch \in Chans |-> 0],
     giving |-> [ch \in Chans |-> 0], loop |-> "off", on |-> 1, readers |-> 0,
     accepted |-> 0, resized |-> 0]
\* The senders of the one connection whose write side is modelled: the
\* reader forwarding a frame, a handler goroutine replying, a Call.
Senders == {"reader", "task", "call"}
\* No sender is modelled.
NoSendLock ==
    [holder |-> "none", pc |-> [x \in Senders |-> "off"],
     left |-> [x \in Senders |-> <<>>], stream |-> <<>>]
\* The parts of the state the specification at hand does not look at.
HostIdle == sockets = NoSockets /\ limiter = NoLimiter /\ sendLock = NoSendLock

\* A bucket is the object one getBucket call allocates: call k, attempt gen.
Bucket(k, gen) == [kind |-> "bucket", k |-> k, gen |-> gen]
Busy == [kind |-> "busy", k |-> 0, gen |-> 0]

\* ----------------------------------------------------- the mutable world
\* The code of one step runs over a record w of the state it may change.
World ==
    [connMap |-> connMap, routes |-> routes, inq |-> inq, tagMap |-> tagMap,
     tasks |-> tasks, call |-> call, lock |-> tagMapLock, panic |-> FALSE]

\* connection.send: write the frame under sendLock.  A local function's
\* connection has no stream (conn is nil): the write panics.  A stream this
\* process closed gives "use of closed network connection", which send turns
\* into ErrClosed; a stream whose peer is gone gives the system's error.
send(w, c, req) ==
    IF c \notin Conns
    THEN [w |-> [w EXCEPT !.panic = TRUE], err |-> ""]
    ELSE IF connState[c] = "closed"
    THEN [w |-> w, err |-> ErrClosed]
    ELSE IF connState[Peer(c)] = "closed"
    THEN [w |-> w, err |-> ErrPipe]
    ELSE [w |-> [w EXCEPT !.inq[Peer(c)] = Append(@, Frame(req))], err |-> ""]

find_route(w, n, addr) == w.connMap[n][addr]

add_route(w, n, addr, conn) ==
    [w EXCEPT !.connMap[n][addr] = conn, !.routes[conn] = @ \cup {addr}]

\* ------------------------------------------------------- local functions
\* The function wrapFunc returns: swap Dst and Src, decode both payloads,
\* call the registered function and encode its reply into Va2.  An empty
\* payload does not unmarshal; the registered function (Echo) copies its
\* argument to its reply, and returns an error for the argument it
\* refuses.
ErrUser == "boom"
Refused(arg) == arg = "v2"

\* The wrapper with a function whose error is not reported.
exec_silent(req) ==
    LET r == [req EXCEPT !.Dst = req.Src, !.Src = req.Dst]
    IN  IF r.Va1 = ""
        THEN [r EXCEPT !.Err = ErrJSON]
        ELSE IF r.Va2 = ""
        THEN [r EXCEPT !.Va1 = "", !.Err = ErrJSON]
        ELSE IF Refused(req.Va1)
        THEN [r EXCEPT !.Va1 = "", !.Va2 = ""]
        ELSE [r EXCEPT !.Va1 = "", !.Va2 = req.Va1]

exec(req) ==
    LET r == [req EXCEPT !.Dst = req.Src, !.Src = req.Dst]
    IN  IF r.Va1 = ""
        THEN [r EXCEPT !.Err = ErrJSON]
        ELSE IF r.Va2 = ""
        THEN [r EXCEPT !.Va1 = "", !.Err = ErrJSON]
        ELSE IF Refused(req.Va1)
        THEN [r EXCEPT !.Va1 = "", !.Va2 = "", !.Err = ErrUser]
        ELSE [r EXCEPT !.Va1 = "", !.Va2 = req.Va1]

\* ----------------------------------------------------------- switchboard
\* send_err: turn req into an error reply and send it on the route to its
\* source.  With no such route the uplink is only recorded in req.conn:
\* nothing is written.  Returns the world and req as it leaves it.
send_err(w, n, req, err) ==
    LET r1 == [req EXCEPT !.Dst = req.Src, !.Src = req.Dst, !.Va1 = "",
                          !.Va2 = "", !.Err = err,
                          !.conn = find_route(w, n, req.Src)]
    IN  IF r1.conn = NoConn
        THEN [w |-> w,
              req |-> IF uplink[n] # NoConn THEN [r1 EXCEPT !.conn = uplink[n]]
                      ELSE r1]
        ELSE [w |-> send(w, r1.conn, r1).w, req |-> r1]

\* route: to the connection Dst resolves to, else the uplink.  A local
\* function's connection starts a goroutine for a request and drops an
\* error; anything else it is handed (a probe) fails with ErrFail.
route(w, n, req) ==
    LET conn0 == find_route(w, n, req.Dst)
        r1 == IF req.Src = "" THEN [req EXCEPT !.Src = myAddr(n)] ELSE req
        conn == IF conn0 = NoConn THEN uplink[n] ELSE conn0
    IN  IF conn = NoConn
        THEN [w |-> w, err |-> ErrClosed, req |-> r1]
        ELSE IF conn \in ExecConns
        THEN IF r1.Err # ""
             THEN [w |-> w, err |-> "", req |-> r1]
             ELSE IF r1.Tag > 0
             THEN [w |-> [w EXCEPT !.tasks = Append(@,
                              [node |-> n, req |-> r1, conn |-> conn,
                               pc |-> "setBusy", dup |-> FALSE,
                               replies |-> 0])],
                   err |-> "", req |-> r1]
             ELSE [w |-> w, err |-> ErrFail, req |-> r1]
        ELSE LET s == send(w, conn, r1)
             IN  [w |-> s.w, err |-> s.err, req |-> r1]

busyCheck(w, n, req) == req.Tag \in DOMAIN w.tagMap[n]

\* Whether the Call that owns bucket b is in its select, able to receive
\* from b.done.
Receptive(w, b) ==
    b.k \in Calls /\ w.call[b.k].pc = "wait" /\ w.call[b.k].gen = b.gen

\* intercept: under tagMapLock, hand req to the bucket of its tag, signal
\* the bucket's unbuffered done channel and delete the entry.  With nobody
\* receiving on done the signal blocks for good, the lock held.
intercept(w, n, req) ==
    IF req.Tag \in DOMAIN w.tagMap[n] /\ w.tagMap[n][req.Tag].kind = "bucket"
    THEN LET b == w.tagMap[n][req.Tag]
         IN  IF Receptive(w, b)
             THEN [w |-> [w EXCEPT !.call[b.k].data = Frame(req),
                                   !.call[b.k].pc = "signalled",
                                   !.tagMap[n] = MapDel(@, req.Tag)],
                   ok |-> TRUE]
             ELSE [w |-> [w EXCEPT !.lock[n] = "intercept"], ok |-> TRUE]
    ELSE [w |-> w, ok |-> FALSE]

\* A switchboard that passes every announcement on to the uplink, also one
\* that came from it.
switchboard_echo(w, n, req) ==
    IF req.Tag = 0
    THEN LET w1 == add_route(w, n, req.Src, req.conn)
         IN  IF uplink[n] # NoConn
             THEN send(w1, uplink[n], req).w
             ELSE w1
    ELSE IF req.Tag < 0 /\ busyCheck(w, n, req)
    THEN w
    ELSE LET i == IF req.Dst = myAddr(n) THEN intercept(w, n, req)
                  ELSE [w |-> w, ok |-> FALSE]
         IN  IF i.ok
             THEN i.w
             ELSE IF find_route(w, n, req.Dst) # NoConn
             THEN LET r == route(w, n, req)
                  IN  IF r.err # "" THEN send_err(r.w, n, r.req, r.err).w
                      ELSE r.w
             ELSE IF req.Err = ""
             THEN route(w, n,
                        [req EXCEPT !.Dst = req.Src, !.Src = req.Dst,
                                    !.Tag = IF req.Tag < 0 THEN req.Tag * (-1)
                                            ELSE req.Tag,
                                    !.Err = ErrFail]).w
             ELSE w

\* switchboard: the dispatch of one received message.
switchboard(w, n, req) ==
    IF req.Tag = 0
    THEN LET w1 == add_route(w, n, req.Src, req.conn)
         IN  IF uplink[n] # NoConn /\ uplink[n] # req.conn
             THEN send(w1, uplink[n], req).w
             ELSE w1
    ELSE IF req.Tag < 0 /\ busyCheck(w, n, req)
    THEN w
    ELSE LET i == IF req.Dst = myAddr(n) THEN intercept(w, n, req)
                  ELSE [w |-> w, ok |-> FALSE]
         IN  IF i.ok
             THEN i.w
             ELSE IF find_route(w, n, req.Dst) # NoConn
             THEN LET r == route(w, n, req)
                  IN  IF r.err # "" THEN send_err(r.w, n, r.req, r.err).w
                      ELSE r.w
             ELSE IF req.Err = ""
             THEN route(w, n,
                        [req EXCEPT !.Dst = req.Src, !.Src = req.Dst,
                                    !.Tag = IF req.Tag < 0 THEN req.Tag * (-1)
                                            ELSE req.Tag,
                                    !.Err = ErrFail]).w
             ELSE w

\* ------------------------------------------------------------ getBucket
\* The probing loop of getBucket, run under tagMapLock: from the drawn tag,
\* step past every tag that is a key of the table, wrapping after the
\* largest tag.  -1 when the loop has tried every tag and found none free
\* (the loop then never ends).
RECURSIVE probe(_, _, _)
probe(keys, tag, tried) ==
    IF tag \in keys
    THEN IF tried > MaxTag
         THEN -1
         ELSE probe(keys, IF tag < MaxTag THEN tag + 1 ELSE 0, tried + 1)
    ELSE tag

\* genTag: rand.Int(rand.Reader, 1<<31 - 1) is uniform in [0, 1<<31 - 1).
genTag == 0 .. (MaxTag - 1)

\* getBucket without the loop: the drawn tag is taken as it is.
getBucket_unprobed(w, n, k, drawn) ==
    [w EXCEPT !.tagMap[n] = MapPut(@, drawn, Bucket(k, w.call[k].gen + 1)),
              !.call[k].tag = drawn,
              !.call[k].gen = @ + 1,
              !.call[k].alloc = @ \cup {drawn}]

getBucket(w, n, k, drawn) ==
    LET tag == probe(DOMAIN w.tagMap[n], drawn, 0)
    IN  IF tag = -1
        THEN [w EXCEPT !.lock[n] = "getBucket", !.call[k].pc = "spin"]
        ELSE [w EXCEPT !.tagMap[n] = MapPut(@, tag, Bucket(k, w.call[k].gen + 1)),
                       !.call[k].tag = tag,
                       !.call[k].gen = @ + 1,
                       !.call[k].alloc = @ \cup {tag}]

\* reset_bucket, the closure of Call: delete the tag's entry.
reset_bucket(w, n, k) == [w EXCEPT !.tagMap[n] = MapDel(@, w.call[k].tag)]

\* ---------------------------------------------------------------- steps
\* The process n ends (killed, or a goroutine panicked): its streams close.
Die(n) ==
    /\ alive' = [alive EXCEPT ![n] = FALSE]
    /\ connState' = [c \in Conns |-> IF Owner(c) = n THEN "closed"
                                     ELSE connState[c]]
    /\ inq' = [c \in Conns |-> IF Owner(c) = n THEN <<>> ELSE inq[c]]
    /\ reader' = [c \in Conns |-> IF Owner(c) = n THEN "done" ELSE reader[c]]
    /\ tasks' = SelectSeq(tasks, LAMBDA t : t.node # n)
    /\ call' = IF n = "C"
               THEN [k \in Calls |-> [call[k] EXCEPT !.pc = "crashed"]]
               ELSE [k \in Calls |->
                        IF call[k].pc = "wait"
                           /\ connMap[n][call[k].name] \in ExecConns
                           /\ connMap["B"][call[k].name] = <<"B", n>>
                        THEN [call[k] EXCEPT !.cut = TRUE]
                        ELSE call[k]]
    /\ UNCHANGED <<listening, uplink, connMap, routes, tagMap, tagMapLock,
                   injected, wire, host>>

\* The state a step of n's code leaves: w, with the reader positions rd.  A
\* write that would overfill a queue blocks: the step waits.
Commit(w, n, rd) ==
    IF w.panic
    THEN Die(n)
    ELSE /\ \A c \in Conns : Len(w.inq[c]) <= MaxQueue
         /\ Len(w.tasks) <= MaxTasks
         /\ connMap' = w.connMap
         /\ routes' = w.routes
         /\ inq' = w.inq
         /\ tagMap' = w.tagMap
         /\ tasks' = w.tasks
         /\ call' = w.call
         /\ tagMapLock' = w.lock
         /\ reader' = rd
         /\ UNCHANGED <<alive, listening, uplink, connState, injected, wire, host>>

\* The node every Call of the model is made on.
Caller == "C"
Ret(kind, text) == [kind |-> kind, text |-> text]
\* The error value Call returns for what send returned.
RetOfSendErr(e) == IF e = ErrClosed THEN Ret("sentinel", ErrClosed)
                   ELSE Ret("text", e)

\* Call, to the label new_request and the dest checks after it.
CallBegin(k, name) ==
    /\ alive[Caller] /\ call[k].pc = "idle"
    /\ LET d0 == uplink[Caller]
           dest == IF d0 = NoConn THEN connMap[Caller][name] ELSE d0
       IN  call' = [call EXCEPT ![k].name = name, ![k].dest = dest,
                               ![k].pc = IF dest = NoConn THEN "returned"
                                         ELSE "genTag",
                               ![k].ret = IF dest = NoConn
                                          THEN Ret("sentinel", ErrClosed)
                                          ELSE @]
    /\ UNCHANGED <<alive, listening, uplink, connMap, routes, connState, inq,
                   reader, tagMap, tagMapLock, tasks, injected, wire, host>>

\* getBucket's draw, made before tagMapLock is taken.
CallGenTag(k, t) ==
    /\ alive[Caller] /\ call[k].pc = "genTag"
    /\ call' = [call EXCEPT ![k].drawn = t, ![k].pc = "getBucket"]
    /\ UNCHANGED <<alive, listening, uplink, connMap, routes, connState, inq,
                   reader, tagMap, tagMapLock, tasks, injected, wire, host>>

\* The request Call sends.  The msg of request.go's revision has no Src
\* field; with the six-field msg of blab.go the request names its sender.
Request(k, tag) ==
    Msg(call[k].name, myAddr(Caller), "", tag, ArgOf(k), "seed", NoConn)
\* The probe Call sends: Dst and the negated tag, nothing else.
Probe(k) == Msg(call[k].name, "", "", call[k].tag * (-1), "", "", NoConn)

\* getBucket under the lock, then the send of the request, whose error is
\* not looked at.
CallGetBucket(k) ==
    /\ alive[Caller] /\ call[k].pc = "getBucket"
    /\ tagMapLock[Caller] = "free"
    /\ LET w1 == getBucket(World, Caller, k, call[k].drawn)
       IN  IF w1.call[k].pc = "spin"
           THEN Commit(w1, Caller, reader)
           ELSE LET w2 == send(w1, call[k].dest,
                               Request(k, w1.call[k].tag)).w
                IN  Commit([w2 EXCEPT !.call[k].pc = "wait"], Caller, reader)

\* The select's first case, after intercept has signalled done.
CallDone(k) ==
    /\ alive[Caller] /\ call[k].pc = "signalled"
    /\ LET d == call[k].data
       IN  IF d.Va2 = "bad"
           THEN \* base64 or json refuses the payload: return err
                /\ call' = [call EXCEPT ![k].pc = "returned",
                                        ![k].ret = Ret("text", "illegal payload")]
                /\ UNCHANGED <<tagMap, tagMapLock>>
           ELSE /\ tagMapLock[Caller] = "free"
                /\ tagMap' = reset_bucket(World, Caller, k).tagMap
                /\ UNCHANGED tagMapLock
                /\ IF d.Err = ErrBadTag
                   THEN call' = [call EXCEPT ![k].pc = "genTag",
                                            ![k].served = FALSE,
                                            ![k].retries = @ + 1]
                   ELSE call' = [call EXCEPT
                           ![k].pc = "returned",
                           ![k].ret = IF d.Err = ErrFail
                                      THEN Ret("sentinel", ErrFail)
                                      ELSE IF d.Err # "" THEN Ret("text", d.Err)
                                      ELSE Ret("ok", d.Va2)]
    /\ UNCHANGED <<alive, listening, uplink, connMap, routes, connState, inq,
                   reader, tasks, injected, wire, host>>

\* The select's second case: 300 ms without a signal; send the probe.
CallTimeout(k) ==
    /\ alive[Caller] /\ call[k].pc = "wait"
    /\ LET s == send(World, call[k].dest, Probe(k))
       IN  IF s.err # ""
           THEN Commit([s.w EXCEPT !.call[k].pc = "returned",
                                   !.call[k].ret = RetOfSendErr(s.err)],
                       Caller, reader)
           ELSE Commit([s.w EXCEPT !.call[k].probes =
                                       IF @ < MaxProbes THEN @ + 1 ELSE @],
                       Caller, reader)

\* The handler run with tagMapLock held: setBusy without its deferred
\* Unlock.
setBusy_holding(w, n, req) ==
    IF (req.Tag * (-1)) \in DOMAIN w.tagMap[n]
    THEN send_err(w, n, req, ErrBadTag)
    ELSE [w |-> [w EXCEPT !.tagMap[n] = MapPut(@, req.Tag * (-1), Busy),
                          !.lock[n] = "handler"],
          req |-> req]

\* The goroutine route() starts for a request to a local function, in three
\* steps.  First setBusy: under tagMapLock, a tag already marked busy makes
\* send_err answer ErrBadTag (rewriting req), else the tag is marked.
setBusy(w, n, req) ==
    IF (req.Tag * (-1)) \in DOMAIN w.tagMap[n]
    THEN send_err(w, n, req, ErrBadTag)
    ELSE [w |-> [w EXCEPT !.tagMap[n] = MapPut(@, req.Tag * (-1), Busy)],
          req |-> req]

unsetBusy(w, n, req) ==
    [w EXCEPT !.tagMap[n] = MapDel(@, req.Tag * (-1))]

TaskSetBusy(i) ==
    /\ i \in DOMAIN tasks /\ tasks[i].pc = "setBusy"
    /\ tagMapLock[tasks[i].node] = "free"
    /\ LET r == setBusy(World, tasks[i].node, tasks[i].req)
           dup == r.req # tasks[i].req
           mine(k) == /\ ~dup /\ call[k].pc = "wait"
                      /\ tasks[i].req.Src = myAddr(Caller)
                      /\ tasks[i].req.Tag = call[k].tag
       IN  Commit([r.w EXCEPT !.tasks[i].req = r.req, !.tasks[i].pc = "exec",
                              !.tasks[i].dup = dup,
                              !.tasks[i].replies = IF r.w.inq # inq THEN 1
                                                   ELSE 0,
                              !.call = [k \in Calls |->
                                  IF mine(k) THEN [@[k] EXCEPT !.served = TRUE]
                                  ELSE @[k]]],
                  tasks[i].node, reader)

\* Then req.conn.send(conn.exec(req)), and send_err when the send fails.
TaskExec(i) ==
    /\ i \in DOMAIN tasks /\ tasks[i].pc = "exec"
    /\ LET n == tasks[i].node
           m == exec(tasks[i].req)
           s == send(World, m.conn, m)
           e == IF s.err # "" THEN send_err(s.w, n, m, s.err)
                ELSE [w |-> s.w, req |-> m]
       IN  Commit([e.w EXCEPT !.tasks[i].req = e.req,
                              !.tasks[i].pc = "unsetBusy",
                              !.tasks[i].replies = IF e.w.inq # inq THEN @ + 1
                                                   ELSE @],
                  n, reader)

\* Last unsetBusy; the goroutine ends.
TaskUnsetBusy(i) ==
    /\ i \in DOMAIN tasks /\ tasks[i].pc = "unsetBusy"
    /\ tagMapLock[tasks[i].node] = "free"
    /\ LET w1 == unsetBusy(World, tasks[i].node, tasks[i].req)
       IN  Commit([w1 EXCEPT !.tasks = RemoveAt(tasks, i)], tasks[i].node,
                  reader)

\* ---------------------------------------------------------------- reader
\* reciever's start: announce this node's address and then, when the node
\* has an uplink, every name of the route table, in the map's order.
RECURSIVE announce(_, _, _)
announce(w, c, names) ==
    IF names = <<>>
    THEN w
    ELSE announce(send(w, c, Msg("", Head(names), "", 0, "", "", NoConn)).w,
                  c, Tail(names))

Known(n) == {a \in Names : connMap[n][a] # NoConn}
Orders(S) == {q \in [1 .. Cardinality(S) -> S] :
                 \A i, j \in DOMAIN q : i # j => q[i] # q[j]}

ReaderStart(c) ==
    /\ reader[c] = "start"
    /\ \E order \in Orders(Known(Owner(c))) :
           LET n == Owner(c)
               w1 == announce(World, c, <<myAddr(n)>>)
               w2 == IF uplink[n] # NoConn THEN announce(w1, c, order) ELSE w1
           IN  Commit(w2, n, [reader EXCEPT ![c] = "run"])

\* A close that leaves the route table as it is.
close_nothing(cm, c) == cm

\* connection.close: delete every name of c.routes from the route table and
\* close the stream.
close(cm, c) ==
    [cm EXCEPT ![Owner(c)] =
        [a \in Names |-> IF a \in routes[c] THEN NoConn ELSE @[a]]]

\* The reader's exit: c.close() and return; what the stream still held is
\* never read.
Exit(c) ==
    /\ connMap' = close(connMap, c)
    /\ connState' = [connState EXCEPT ![c] = "closed"]
    /\ reader' = [reader EXCEPT ![c] = "done"]
    /\ inq' = [inq EXCEPT ![c] = <<>>]
    /\ UNCHANGED <<alive, listening, uplink, routes, tagMap, tagMapLock,
                   tasks, call, injected, wire, host>>

\* A decoder that takes every frame.
Decodes_all(f) == TRUE

\* Whether decMessage takes the frame: the tag field must parse as an int32.
Decodes(f) == f.Tag \in (0 - MaxTag) .. MaxTag

\* One frame read and decoded, and the switchboard run on it; a frame that
\* does not decode ends the reader.  A frame other than an announcement
\* needs tagMapLock.
Read(c) ==
    /\ reader[c] = "run" /\ inq[c] # <<>>
    /\ IF ~Decodes(inq[c][1])
       THEN Exit(c)
       ELSE /\ inq[c][1].Tag # 0 => tagMapLock[Owner(c)] = "free"
            /\ LET n == Owner(c)
                   w0 == [World EXCEPT !.inq[c] = Tail(@)]
                   w1 == switchboard(w0, n, Received(inq[c][1], c))
               IN  Commit(w1, n, IF w1.lock[n] = "intercept"
                                 THEN [reader EXCEPT ![c] = "blocked"]
                                 ELSE reader)

\* The read fails (the peer's end is closed and nothing is left to read):
\* close and return.
ReadEOF(c) ==
    /\ reader[c] = "run" /\ inq[c] = <<>>
    /\ connState[Peer(c)] = "closed"
    /\ Exit(c)

\* ------------------------------------------------------- dial and listen
Broker == "B"
\* Listen on the broker: the dial finds no listener; bind the path.
Listen(n) ==
    /\ n = Broker /\ alive[n] /\ ~listening[n]
    /\ listening' = [listening EXCEPT ![n] = TRUE]
    /\ UNCHANGED <<alive, uplink, connMap, routes, connState, inq, reader,
                   tagMap, tagMapLock, tasks, call, injected, wire, host>>

\* open: the dial succeeds; the stream becomes the uplink and its reader
\* starts.
open(n) ==
    /\ n # Broker /\ alive[n] /\ listening[Broker] /\ alive[Broker]
    /\ connState[<<n, Broker>>] = "none"
    /\ connState' = [connState EXCEPT ![<<n, Broker>>] = "open"]
    /\ uplink' = [uplink EXCEPT ![n] = <<n, Broker>>]
    /\ reader' = [reader EXCEPT ![<<n, Broker>>] = "start"]
    /\ UNCHANGED <<alive, listening, connMap, routes, inq, tagMap, tagMapLock,
                   tasks, call, injected, wire, host>>

\* The accept loop of Listen: addconnection and a reader goroutine.
Accept(c) ==
    /\ Owner(c) = Broker /\ alive[Broker] /\ listening[Broker]
    /\ connState[c] = "none" /\ connState[Peer(c)] = "open"
    /\ connState' = [connState EXCEPT ![c] = "open"]
    /\ reader' = [reader EXCEPT ![c] = "start"]
    /\ UNCHANGED <<alive, listening, uplink, connMap, routes, inq, tagMap,
                   tagMapLock, tasks, call, injected, wire, host>>

\* RegisterName of a function: index_method adds the route to a new
\* connection whose routes already hold the name, and with an uplink the
\* name is announced through route().
Producer == "P"
RegisterName(n, name) ==
    /\ alive[n] /\ routes[ExecConn(name)] = {}
    /\ LET w0 == [World EXCEPT !.routes[ExecConn(name)] = {name}]
           w1 == add_route(w0, n, name, ExecConn(name))
           w2 == IF uplink[n] # NoConn
                 THEN route(w1, n, Msg("", name, "", 0, "", "", NoConn)).w
                 ELSE w1
       IN  Commit(w2, n, reader)

\* A process is killed.
Killable == {"P"}
Kill(n) ==
    /\ n \in Killable /\ alive[n]
    /\ Die(n)

\* ------------------------------------------------------- specifications
IdleCall ==
    [pc |-> "idle", name |-> "", dest |-> NoConn, drawn |-> 0, tag |-> 0,
     gen |-> 0, alloc |-> {}, data |-> Frame(Msg("", "", "", 0, "", "", NoConn)),
     probes |-> 0, retries |-> 0, ret |-> Ret("none", ""), cut |-> FALSE,
     served |-> FALSE]

\* After construction: New() on every node, nothing dialed or bound.
Init ==
    /\ alive = [n \in Nodes |-> TRUE]
    /\ listening = [n \in Nodes |-> FALSE]
    /\ uplink = [n \in Nodes |-> NoConn]
    /\ connMap = [n \in Nodes |-> [a \in Names |-> NoConn]]
    /\ routes = [c \in AllConns |-> {}]
    /\ connState = [c \in Conns |-> "none"]
    /\ inq = [c \in Conns |-> <<>>]
    /\ reader = [c \in Conns |-> "off"]
    /\ tagMap = [n \in Nodes |-> EmptyMap]
    /\ tagMapLock = [n \in Nodes |-> "free"]
    /\ tasks = <<>>
    /\ call = [k \in Calls |-> IdleCall]
    /\ injected = 0
    /\ wire = NoWire
    /\ HostIdle

\* The names the consumer calls.
Called == {"Echo", "Nope"}

\* The Calls the closed network makes.
NetCalls == 1

CallStep ==
    \E k \in 1 .. NetCalls :
        \/ \E name \in Called : CallBegin(k, name)
        \/ \E t \in genTag : CallGenTag(k, t)
        \/ CallGetBucket(k)
        \/ CallDone(k)
        \/ CallTimeout(k)

TaskStep ==
    \E i \in 1 .. MaxTasks : TaskSetBusy(i) \/ TaskExec(i) \/ TaskUnsetBusy(i)

ReaderStep == \E c \in Conns : ReaderStart(c) \/ Read(c) \/ ReadEOF(c)

Next ==
    \/ \E n \in Nodes : Listen(n)
    \/ \E n \in Nodes : open(n)
    \/ \E c \in Conns : Accept(c)
    \/ RegisterName(Producer, "Echo")
    \/ \E n \in Nodes : Kill(n)
    \/ ReaderStep
    \/ TaskStep
    \/ CallStep

Spec == Init /\ [][Next]_vars

\* The closed network once it is set up: the producer has registered Echo
\* and dialed, the consumer has dialed, the broker has accepted both, and
\* the four reader goroutines are about to start.
InitLive ==
    /\ alive = [n \in Nodes |-> TRUE]
    /\ listening = [n \in Nodes |-> n = Broker]
    /\ uplink = [n \in Nodes |-> IF n = Broker THEN NoConn ELSE <<n, Broker>>]
    /\ connMap = [n \in Nodes |-> [a \in Names |->
                      IF n = Producer /\ a = "Echo" THEN ExecConn("Echo")
                      ELSE NoConn]]
    /\ routes = [c \in AllConns |-> IF c = ExecConn("Echo") THEN {"Echo"}
                                    ELSE {}]
    /\ connState = [c \in Conns |-> "open"]
    /\ inq = [c \in Conns |-> <<>>]
    /\ reader = [c \in Conns |-> "start"]
    /\ tagMap = [n \in Nodes |-> EmptyMap]
    /\ tagMapLock = [n \in Nodes |-> "free"]
    /\ tasks = <<>>
    /\ call = [k \in Calls |-> IdleCall]
    /\ injected = 0
    /\ wire = NoWire
    /\ HostIdle

NextLive ==
    \/ \E n \in Nodes : Kill(n)
    \/ ReaderStep
    \/ TaskStep
    \/ CallStep

\* Fair scheduling: every goroutine that can take a step again and again
\* takes one in the end (a reader, a handler goroutine, a Call past its
\* entry); a write that waits for room in a stream goes on once there is
\* room.  Nothing obliges anyone to start a Call or to kill a process.
Fairness ==
    /\ \A c \in Conns : SF_vars(ReaderStart(c) \/ Read(c) \/ ReadEOF(c))
    /\ SF_vars(TaskStep)
    /\ \A k \in 1 .. NetCalls :
           SF_vars((\E t \in genTag : CallGenTag(k, t))
                   \/ CallGetBucket(k) \/ CallDone(k) \/ CallTimeout(k))

SpecLive == InitLive /\ [][NextLive]_vars /\ Fairness

\* ------------------------------------------------- one node and its peer
\* The consumer alone, dialed to a peer process that is not modelled: the
\* peer writes frames on the stream, reads what the node writes, and may
\* close its end.
Up == <<"C", "B">>

InitOpen ==
    /\ alive = [n \in Nodes |-> n = Caller]
    /\ listening = [n \in Nodes |-> FALSE]
    /\ uplink = [n \in Nodes |-> IF n = Caller THEN Up ELSE NoConn]
    /\ connMap = [n \in Nodes |-> [a \in Names |-> NoConn]]
    /\ routes = [c \in AllConns |-> {}]
    /\ connState = [c \in Conns |-> IF c \in {Up, Peer(Up)} THEN "open"
                                    ELSE "none"]
    /\ inq = [c \in Conns |-> <<>>]
    /\ reader = [c \in Conns |-> IF c = Up THEN "start" ELSE "off"]
    /\ tagMap = [n \in Nodes |-> EmptyMap]
    /\ tagMapLock = [n \in Nodes |-> "free"]
    /\ tasks = <<>>
    /\ call = [k \in Calls |-> IdleCall]
    /\ injected = 0
    /\ wire = NoWire
    /\ HostIdle

\* The tags the node's Calls have put on the wire.
SeenTags == UNION {call[k].alloc : k \in Calls}

\* What a peer answers a Call with: a reply, an undecodable reply, or one
\* of the distinguished errors.
Replies ==
    {Frame(Msg(myAddr(Caller), "Echo", e[1], t, "", e[2], NoConn)) :
        e \in {<<"", "v1">>, <<"", "bad">>, <<ErrBadTag, "">>, <<ErrFail, "">>},
        t \in SeenTags}

PeerWrite(c, f, max) ==
    /\ connState[Peer(c)] = "open" /\ connState[c] = "open"
    /\ injected < max /\ Len(inq[c]) < MaxQueue
    /\ inq' = [inq EXCEPT ![c] = Append(@, f)]
    /\ injected' = injected + 1
    /\ UNCHANGED <<alive, listening, uplink, connMap, routes, connState,
                   reader, tagMap, tagMapLock, tasks, call, wire, host>>

PeerRead(c) ==
    /\ inq[Peer(c)] # <<>>
    /\ inq' = [inq EXCEPT ![Peer(c)] = Tail(@)]
    /\ UNCHANGED <<alive, listening, uplink, connMap, routes, connState,
                   reader, tagMap, tagMapLock, tasks, call, injected, wire, host>>

PeerClose(c) ==
    /\ connState[Peer(c)] = "open"
    /\ connState' = [connState EXCEPT ![Peer(c)] = "closed"]
    /\ inq' = [inq EXCEPT ![Peer(c)] = <<>>]
    /\ UNCHANGED <<alive, listening, uplink, connMap, routes, reader, tagMap,
                   tagMapLock, tasks, call, injected, wire, host>>

OpenCallStep ==
    \E k \in Calls :
        \/ CallBegin(k, "Echo")
        \/ \E t \in genTag : CallGenTag(k, t)
        \/ CallGetBucket(k)
        \/ CallDone(k)
        \/ CallTimeout(k)

NextOpen ==
    \/ \E f \in Replies : PeerWrite(Up, f, MaxInject)
    \/ PeerRead(Up)
    \/ PeerClose(Up)
    \/ ReaderStart(Up) \/ Read(Up) \/ ReadEOF(Up)
    \/ OpenCallStep

SpecOpen == InitOpen /\ [][NextOpen]_vars

\* ------------------------------------------------------ getBucket alone
\* getBucket over every table: the node of InitOpen with a request table
\* that already holds the pending entries of Calls outside the model, on
\* any set of tags.
Tags == 0 .. MaxTag
Pending(S) == [t \in S |-> Bucket(0, 0)]

InitAlloc ==
    /\ alive = [n \in Nodes |-> n = Caller]
    /\ listening = [n \in Nodes |-> FALSE]
    /\ uplink = [n \in Nodes |-> IF n = Caller THEN Up ELSE NoConn]
    /\ connMap = [n \in Nodes |-> [a \in Names |-> NoConn]]
    /\ routes = [c \in AllConns |-> {}]
    /\ connState = [c \in Conns |-> IF c \in {Up, Peer(Up)} THEN "open"
                                    ELSE "none"]
    /\ inq = [c \in Conns |-> <<>>]
    /\ reader = [c \in Conns |-> IF c = Up THEN "start" ELSE "off"]
    /\ \E S \in SUBSET Tags :
           tagMap = [n \in Nodes |-> IF n = Caller THEN Pending(S)
                                     ELSE EmptyMap]
    /\ tagMapLock = [n \in Nodes |-> "free"]
    /\ tasks = <<>>
    /\ call = [k \in Calls |-> IdleCall]
    /\ injected = 0
    /\ wire = NoWire
    /\ HostIdle

AllocStep ==
    \E k \in Calls :
        \/ CallBegin(k, "Echo")
        \/ \E t \in genTag : CallGenTag(k, t)
        \/ CallGetBucket(k)

NextAlloc == AllocStep \/ PeerRead(Up)

SpecAlloc == InitAlloc /\ [][NextAlloc]_vars
\* --------------------------------------------------- the producer alone
\* The producer, dialed to a broker that is not modelled.  The broker
\* announces itself, as its reader does on an accepted stream, and passes
\* on requests and probes: from itself or from a consumer X behind it,
\* under one tag, and may close its end.
PUp == <<"P", "B">>
ServeTags == {3}
ServeFrames ==
    {Frame(Msg("", "B", "", 0, "", "", NoConn))}
    \cup {Frame(Msg("Echo", src, "", t, "v1", "seed", NoConn)) :
              src \in {"B", "X"}, t \in ServeTags}
    \cup {Frame(Msg("Echo", "B", "", t * (-1), "", "", NoConn)) :
              t \in ServeTags}

InitServe ==
    /\ alive = [n \in Nodes |-> n = Producer]
    /\ listening = [n \in Nodes |-> FALSE]
    /\ uplink = [n \in Nodes |-> IF n = Producer THEN PUp ELSE NoConn]
    /\ connMap = [n \in Nodes |-> [a \in Names |-> NoConn]]
    /\ routes = [c \in AllConns |-> {}]
    /\ connState = [c \in Conns |-> IF c \in {PUp, Peer(PUp)} THEN "open"
                                    ELSE "none"]
    /\ inq = [c \in Conns |-> <<>>]
    /\ reader = [c \in Conns |-> IF c = PUp THEN "start" ELSE "off"]
    /\ tagMap = [n \in Nodes |-> EmptyMap]
    /\ tagMapLock = [n \in Nodes |-> "free"]
    /\ tasks = <<>>
    /\ call = [k \in Calls |-> IdleCall]
    /\ injected = 0
    /\ wire = NoWire
    /\ HostIdle

NextServe ==
    \/ RegisterName(Producer, "Echo")
    \/ \E f \in ServeFrames : PeerWrite(PUp, f, MaxServe)
    \/ PeerRead(PUp)
    \/ PeerClose(PUp)
    \/ ReaderStart(PUp) \/ Read(PUp) \/ ReadEOF(PUp)
    \/ TaskStep

SpecServe == InitServe /\ [][NextServe]_vars

\* ----------------------------------------------------- the broker alone
\* The broker with two accepted streams whose peers are not modelled.  A
\* peer announces names (the same name may come from both), passes on a
\* request or an error reply between them, writes a frame whose tag does
\* not parse, and may close its end.
BC == <<"B", "C">>
HubConns == {<<"B", "P">>, BC}
\* A tag field beyond int32: strconv.ParseInt fails on it.
BadTag == MaxTag + 1
HubFrames ==
    {Frame(Msg("", src, "", 0, "", "", NoConn)) : src \in {"X", "Echo"}}
    \cup {Frame(Msg("X", "Echo", e, 3, "", "", NoConn)) : e \in {"", ErrUser}}
    \cup {Frame(Msg("X", "Echo", "", BadTag, "", "", NoConn))}

InitHub ==
    /\ alive = [n \in Nodes |-> n = Broker]
    /\ listening = [n \in Nodes |-> n = Broker]
    /\ uplink = [n \in Nodes |-> NoConn]
    /\ connMap = [n \in Nodes |-> [a \in Names |-> NoConn]]
    /\ routes = [c \in AllConns |-> {}]
    /\ connState = [c \in Conns |-> "open"]
    /\ inq = [c \in Conns |-> <<>>]
    /\ reader = [c \in Conns |-> IF c \in HubConns THEN "start" ELSE "off"]
    /\ tagMap = [n \in Nodes |-> EmptyMap]
    /\ tagMapLock = [n \in Nodes |-> "free"]
    /\ tasks = <<>>
    /\ call = [k \in Calls |-> IdleCall]
    /\ injected = 0
    /\ wire = NoWire
    /\ HostIdle

NextHub ==
    \E c \in HubConns :
        \/ \E f \in HubFrames : PeerWrite(c, f, MaxHub)
        \/ PeerRead(c)
        \/ PeerClose(c)
        \/ ReaderStart(c) \/ Read(c) \/ ReadEOF(c)

SpecHub == InitHub /\ [][NextHub]_vars

\* ------------------------------------------------------------- a relay
\* The same node, which may have dialed another socket before it listened:
\* the stream to P is then its uplink, the stream to C an accepted one.
InitMid ==
    /\ alive = [n \in Nodes |-> n = Broker]
    /\ listening = [n \in Nodes |-> n = Broker]
    /\ uplink \in {[n \in Nodes |-> IF n = Broker THEN up ELSE NoConn] :
                      up \in {NoConn, <<"B", "P">>}}
    /\ connMap = [n \in Nodes |-> [a \in Names |-> NoConn]]
    /\ routes = [c \in AllConns |-> {}]
    /\ connState = [c \in Conns |-> "open"]
    /\ inq = [c \in Conns |-> <<>>]
    /\ reader = [c \in Conns |-> IF c \in HubConns THEN "start" ELSE "off"]
    /\ tagMap = [n \in Nodes |-> EmptyMap]
    /\ tagMapLock = [n \in Nodes |-> "free"]
    /\ tasks = <<>>
    /\ call = [k \in Calls |-> IdleCall]
    /\ injected = 0
    /\ wire = NoWire
    /\ HostIdle

SpecMid == InitMid /\ [][NextHub]_vars

\* ------------------------------------------------------ one byte stream
\* One stream at the level of bytes: the peer has written a sequence of
\* frames with send, and the reader takes the bytes in reads of any
\* length, up to its buffer.
BufSize == 1024
\* Frames written on the stream.
MaxFrames == 2
\* The messages written: every field empty or not, tags of one and of
\* several digits, negative, zero and at both ends of int32.
WireMsgs ==
    {WireMsg(<<>>, <<"a">>, <<>>, 0, <<>>, <<>>),
     WireMsg(<<"a", "b">>, <<"b">>, <<>>, 10, <<"x">>, <<"o", "0">>),
     WireMsg(<<"a">>, <<>>, <<>>, 0 - 3, <<>>, <<>>),
     WireMsg(<<"b">>, <<"a">>, <<"b", "a", "-">>, 7, <<>>, <<>>),
     WireMsg(<<"b">>, <<"a">>, <<>>, 0 - 120, <<>>, <<"0", "x", "1">>),
     WireMsg(<<"0">>, <<"-", "1">>, <<"+">>, MaxInt32, <<"1", "0">>, <<"0", "7">>),
     WireMsg(<<>>, <<>>, <<>>, MinInt32, <<>>, <<>>),
     WireMsg(<<"x">>, <<"o">>, <<>>, 8, <<"a">>, <<>>)}

RECURSIVE Concat(_)
Concat(frames) ==
    IF frames = <<>> THEN <<>> ELSE Sprintf(Head(frames)) \o Concat(Tail(frames))

WireInputs == UNION {[1 .. n -> WireMsgs] : n \in 1 .. MaxFrames}

InitWire ==
    /\ alive = [n \in Nodes |-> n = Caller]
    /\ listening = [n \in Nodes |-> FALSE]
    /\ uplink = [n \in Nodes |-> IF n = Caller THEN Up ELSE NoConn]
    /\ connMap = [n \in Nodes |-> [a \in Names |-> NoConn]]
    /\ routes = [c \in AllConns |-> {}]
    /\ connState = [c \in Conns |-> IF c \in {Up, Peer(Up)} THEN "open"
                                    ELSE "none"]
    /\ inq = [c \in Conns |-> <<>>]
    /\ reader = [c \in Conns |-> IF c = Up THEN "run" ELSE "off"]
    /\ tagMap = [n \in Nodes |-> EmptyMap]
    /\ tagMapLock = [n \in Nodes |-> "free"]
    /\ tasks = <<>>
    /\ call = [k \in Calls |-> IdleCall]
    /\ injected = 0
    /\ \E frames \in WireInputs :
           wire = [sent |-> frames, stream |-> Concat(frames), pbuf |-> <<>>,
                   got |-> <<>>, err |-> ""]
    /\ HostIdle

Min(a, b) == IF a < b THEN a ELSE b

\* One pass of reciever's outer loop: conn.Read returns sz bytes, they are
\* appended to pbuf and the inner loop runs.
WireRead(sz) ==
    /\ wire.err = "" /\ wire.stream # <<>>
    /\ sz \in 1 .. Min(Len(wire.stream), BufSize)
    /\ LET r == reciever_loop(wire.pbuf \o SubSeq(wire.stream, 1, sz),
                              wire.got)
       IN  wire' = [wire EXCEPT
                       !.stream = SubSeq(wire.stream, sz + 1, Len(wire.stream)),
                       !.pbuf = r.pbuf, !.got = r.got, !.err = r.err]
    /\ UNCHANGED <<alive, listening, uplink, connMap, routes, connState, inq,
                   reader, tagMap, tagMapLock, tasks, call, injected, host>>

NextWire == \E sz \in 1 .. BufSize : WireRead(sz)

SpecWire == InitWire /\ [][NextWire]_vars

\* --------------------------------------------- a function of one's own
\* The consumer has registered Echo itself, before dialing; it may call
\* Echo on its own or after it has dialed the broker.
InitLocal ==
    /\ alive = [n \in Nodes |-> TRUE]
    /\ listening = [n \in Nodes |-> FALSE]
    /\ uplink = [n \in Nodes |-> NoConn]
    /\ connMap = [n \in Nodes |-> [a \in Names |->
                      IF n = Caller /\ a = "Echo" THEN ExecConn("Echo")
                      ELSE NoConn]]
    /\ routes = [c \in AllConns |-> IF c = ExecConn("Echo") THEN {"Echo"}
                                    ELSE {}]
    /\ connState = [c \in Conns |-> "none"]
    /\ inq = [c \in Conns |-> <<>>]
    /\ reader = [c \in Conns |-> "off"]
    /\ tagMap = [n \in Nodes |-> EmptyMap]
    /\ tagMapLock = [n \in Nodes |-> "free"]
    /\ tasks = <<>>
    /\ call = [k \in Calls |-> IdleCall]
    /\ injected = 0
    /\ wire = NoWire
    /\ HostIdle

LocalCallStep ==
    \E k \in 1 .. NetCalls :
        \/ CallBegin(k, "Echo")
        \/ \E t \in genTag : CallGenTag(k, t)
        \/ CallGetBucket(k)
        \/ CallDone(k)
        \/ CallTimeout(k)

NextLocal ==
    \/ Listen(Broker)
    \/ open(Caller)
    \/ Accept(BC)
    \/ ReaderStep
    \/ TaskStep
    \/ LocalCallStep

SpecLocal == InitLocal /\ [][NextLocal]_vars

\* ------------------------------------------------- a call that fails
\* The set-up network with the Call whose argument Echo refuses.
FailCallStep ==
    \/ CallBegin(NCalls, "Echo")
    \/ \E t \in genTag : CallGenTag(NCalls, t)
    \/ CallGetBucket(NCalls)
    \/ CallDone(NCalls)
    \/ CallTimeout(NCalls)

NextFail ==
    \/ \E n \in Nodes : Kill(n)
    \/ ReaderStep
    \/ TaskStep
    \/ FailCallStep

SpecFail == InitLive /\ [][NextFail]_vars

\* ---------------------------------------------------------------- claims
\* Call k takes the step that runs getBucket to its return.
Allocates(k) == call[k].pc = "getBucket" /\ call'[k].pc = "wait"

\* C8: the request table holds at most one pending entry per tag: the tag
\* getBucket returns is never a key the table already has, and no entry
\* that was in the table is replaced, also with two Calls allocating.
C8_FreshTag ==
    [][\A k \in Calls :
          Allocates(k) =>
              /\ call'[k].tag \notin DOMAIN tagMap[Caller]
              /\ tagMap'[Caller][call'[k].tag] = Bucket(k, call'[k].gen)
              /\ \A t \in DOMAIN tagMap[Caller] :
                     /\ t \in DOMAIN tagMap'[Caller]
                     /\ tagMap'[Caller][t] = tagMap[Caller][t]]_vars

\* Two Calls drew the same tag and both hold a bucket: the second one was
\* moved on by the loop.
C8_Witness ==
    \E k1, k2 \in Calls :
        /\ k1 # k2
        /\ call[k1].pc = "wait" /\ call[k2].pc = "wait"
        /\ call[k1].drawn = call[k2].drawn
        /\ call[k1].tag # call[k2].tag
        /\ tagMap[Caller][call[k1].tag] = Bucket(k1, call[k1].gen)
        /\ tagMap[Caller][call[k2].tag] = Bucket(k2, call[k2].gen)

\* C1: under fair scheduling a Call that has inserted its pending entry
\* leaves the waiting state in the end: it returns, with the reply or with
\* an error, whatever closes meanwhile.  (Stated of a Call whose tag is
\* not 0: a request with tag 0 is read as an announcement, C9.)
C1_CallReturns ==
    \A k \in 1 .. NetCalls :
        (call[k].pc = "wait" /\ call[k].tag # 0) ~> (call[k].pc = "returned")

BP == <<"B", "P">>

\* C2: once the broker has handled the end of the producer's connection,
\* its route table holds no name on that connection, and a Call that was
\* waiting on the producer when it ended returns, if not the reply that
\* was already on its way, the sentinel ErrClosed.
C2_ProducerGone ==
    /\ reader[BP] = "done" => \A a \in Names : connMap[Broker][a] # BP
    /\ \A k \in Calls :
           (call[k].cut /\ call[k].pc = "returned" /\ call[k].ret.kind # "ok")
               => call[k].ret = Ret("sentinel", ErrClosed)

\* The reply the handler makes to Call k.
ReplyTo(k) == Ret("ok", ArgOf(k))

\* Nothing is under way: every reader is in its loop with nothing to read,
\* no handler goroutine is left, and the producer lives.
Quiet ==
    /\ \A c \in Conns : inq[c] = <<>> /\ reader[c] = "run"
    /\ tasks = <<>>
    /\ alive[Producer]

\* C4: once a handler goroutine has taken the request of a Call, the
\* probes the Call sends, however they interleave with the goroutine's
\* start and end, make it return no error, and the Call gets the
\* handler's reply: it waits while the handler or a frame is under way,
\* or has been handed the reply, or has returned it.
C4_ProbesHarmless ==
    \A k \in Calls :
        call[k].served =>
            \/ call[k].pc = "wait" /\ ~(call[k].probes > 0 /\ Quiet)
            \/ /\ call[k].pc = "signalled"
               /\ call[k].data.Err = "" /\ call[k].data.Va2 = ArgOf(k)
               /\ call[k].data.Tag = call[k].tag
            \/ call[k].pc = "returned" /\ call[k].ret = ReplyTo(k)

\* C6: a Call to a name nobody has a route for, once its request is sent,
\* returns the sentinel ErrFail: it returns no other result, and under
\* fair scheduling it does return.  (The tag is not 0, as in C1.)
C6_NoRouteFails ==
    /\ [](\A k \in Calls :
            (call[k].name = "Nope" /\ call[k].pc = "returned"
             /\ call[k].dest # NoConn)
                => call[k].ret = Ret("sentinel", ErrFail))
    /\ \A k \in 1 .. NetCalls :
           (call[k].name = "Nope" /\ call[k].pc = "wait" /\ call[k].tag # 0)
               ~> (call[k].pc = "returned")

\* The goroutine i finds its request's tag busy, in this step.
FindsBusy(i) ==
    /\ i \in DOMAIN tasks /\ tasks[i].pc = "setBusy"
    /\ i \in DOMAIN tasks' /\ tasks'[i].pc = "exec" /\ tasks'[i].dup

\* C7: when a request arrives under a tag that is marked busy, its sender
\* is sent the duplicate-tag error (which makes its Call retry), and the
\* request in progress under the tag goes on unaffected: the tag stays
\* marked busy until its handler has replied.
C7_DuplicateTag ==
    /\ [][\A i \in 1 .. MaxTasks :
            FindsBusy(i) =>
                \E c \in Conns :
                    /\ Len(inq'[c]) = Len(inq[c]) + 1
                    /\ inq'[c][Len(inq'[c])].Err = ErrBadTag
                    /\ inq'[c][Len(inq'[c])].Dst = tasks[i].req.Src
                    /\ inq'[c][Len(inq'[c])].Tag = tasks[i].req.Tag]_vars
    /\ [](\A i \in 1 .. MaxTasks :
            (i \in DOMAIN tasks /\ tasks[i].pc = "exec" /\ ~tasks[i].dup)
                => (tasks[i].req.Tag * (-1)) \in DOMAIN tagMap[tasks[i].node])

\* The entries of the request table that are buckets of Call k.
BucketsOf(k) ==
    {t \in DOMAIN tagMap[Caller] :
        tagMap[Caller][t].kind = "bucket" /\ tagMap[Caller][t].k = k}

\* C3: once Call has returned, by whatever path, the request table holds
\* no entry that this Call inserted.
C3_NoEntryAfterReturn ==
    \A k \in Calls : call[k].pc = "returned" => BucketsOf(k) = {}

\* Call k is between getBucket's return and its own return.
InProgress(k) == call[k].pc \in {"wait", "signalled"}

\* C5: two Calls in progress on the node hold distinct tags, a waiting
\* Call's tag is mapped to its own bucket, so that the reply with its tag
\* reaches it, and the reply a Call returns carries its tag.
C5_DistinctTagsOwnReply ==
    /\ \A k1, k2 \in Calls :
           (k1 # k2 /\ InProgress(k1) /\ InProgress(k2))
               => call[k1].tag # call[k2].tag
    /\ \A k \in Calls :
           call[k].pc = "wait" => BucketsOf(k) = {call[k].tag}
    /\ \A k \in Calls :
           (call[k].pc = "returned" /\ call[k].ret.kind = "ok")
               => call[k].data.Tag = call[k].tag

\* The tags the specification reserves.
Reserved == {0, 1, 2}

\* C9: getBucket never returns 0, 1 or 2 nor a negative tag, by the draw
\* or after wrapping, so no request a Call has written is a Tag-0 frame.
C9_NoReservedTag ==
    /\ \A k \in Calls : \A t \in call[k].alloc : t > 0 /\ t \notin Reserved
    /\ \A i \in DOMAIN inq[Peer(Up)] : inq[Peer(Up)][i].Tag # 0

\* C10: with a non-reserved tag free, getBucket started on a non-reserved
\* tag returns, and returns a free non-reserved tag: probing past the
\* largest tag goes on from 3.
C10_WrapsToThree ==
    [][\A k \in Calls :
          (/\ call[k].pc = "getBucket" /\ call'[k].pc # "getBucket"
           /\ call[k].drawn \notin Reserved
           /\ \E t \in Tags \ Reserved : t \notin DOMAIN tagMap[Caller])
          => /\ call'[k].pc = "wait"
             /\ call'[k].tag \in Tags \ Reserved
             /\ call'[k].tag \notin DOMAIN tagMap[Caller]]_vars

\* C11: once the reader of a connection has exited (end of stream, read
\* error or a frame that does not decode) and has closed it, the route
\* table of its node maps no name to that connection, in every state
\* after.
C11_NoRouteToClosed ==
    \A c \in Conns :
        (reader[c] = "done" /\ alive[Owner(c)])
            => \A a \in Names : find_route(World, Owner(c), a) # c

\* A connection that names were announced on has been closed by its reader
\* on a frame that did not decode (the peer's end is still open), while the
\* node goes on serving its other connection.
C11_Witness ==
    \E c \in HubConns :
        /\ reader[c] = "done" /\ routes[c] # {}
        /\ connState[Peer(c)] = "open"
        /\ \E d \in HubConns : d # c /\ reader[d] = "run"

\* C12: the route table and the route lists agree: on a node that runs,
\* for every name a and every connection c that is not closed, the table
\* maps a to c exactly when a is in c.routes, after any announcements
\* (the same name from two connections too), registrations and closes.
C12_TableMatchesRoutes ==
    \A c \in AllConns : \A a \in Names :
        LET n == IF c \in Conns THEN Owner(c) ELSE Producer
        IN  (alive[n] /\ (c \in Conns => connState[c] = "open"))
                => (find_route(World, n, a) = c <=> a \in routes[c])

\* The goroutine i takes its step from the handler's call to unsetBusy.
ExecStep(i) ==
    /\ i \in DOMAIN tasks /\ tasks[i].pc = "exec"
    /\ Len(tasks') = Len(tasks) /\ tasks'[i].pc = "unsetBusy"

\* This step writes one frame on c; Last(c) is that frame.
Writes(c) == Len(inq'[c]) = Len(inq[c]) + 1
Last(c) == inq'[c][Len(inq'[c])]

\* C13: a handler goroutine that runs to its end either writes the
\* handler's reply on the connection its request arrived on or, when that
\* write fails, has ErrClosed routed back toward the request's source;
\* none ends with neither, and none ends the process.
C13_ReplyOrErrClosed ==
    [][/\ \A i \in 1 .. MaxTasks :
              (ExecStep(i) /\ ~tasks[i].dup) =>
                  LET q == tasks[i].req
                  IN  \/ /\ Writes(Peer(q.conn))
                         /\ Last(Peer(q.conn)).Tag = q.Tag
                         /\ Last(Peer(q.conn)).Dst = q.Src
                         /\ Last(Peer(q.conn)).Src = q.Dst
                      \/ \E c \in Conns :
                             /\ Writes(c)
                             /\ Last(c).Err = ErrClosed
                             /\ Last(c).Dst = q.Src
                             /\ Last(c).Tag = q.Tag
       /\ (\E i \in DOMAIN tasks : tasks[i].pc = "exec")
              => alive'[Producer]]_vars

\* C16: a Call to a function registered on the calling node itself (the
\* route entry is the function's own connection) completes with the
\* handler's reply, here the argument Echo was given: the Call ends in
\* no other way.
C16_LocalCall ==
    \A k \in Calls :
        (call[k].name = "Echo" /\ call[k].pc \in {"returned", "crashed"})
            => call[k].ret = ReplyTo(k)

Dispatches(c) ==
    /\ reader[c] = "run" /\ inq[c] # <<>> /\ Decodes(inq[c][1])
    /\ inq'[c] = Tail(inq[c]) /\ reader'[c] # "done"

\* The frame is a request or a probe that the switchboard neither drops as
\* busy nor hands to a waiting Call, and its Dst has no route entry.
Unroutable(n, f) ==
    /\ f.Tag # 0 /\ f.Err = ""
    /\ ~(f.Tag < 0 /\ busyCheck(World, n, f))
    /\ ~(f.Dst = myAddr(n) /\ f.Tag \in DOMAIN tagMap[n])
    /\ find_route(World, n, f.Dst) = NoConn

\* C18: a request or probe whose Dst has no route entry, received on a
\* node that has an uplink, is forwarded on the uplink as it is; the
\* unknown-destination error is made only on a node without uplink.
C18_UnknownGoesUp ==
    [][\A c \in Conns :
          LET n == Owner(c)
              f == inq[c][1]
              up == uplink[n]
          IN  (Dispatches(c) /\ Unroutable(n, f) /\ up # NoConn)
                  => /\ Writes(Peer(up))
                     /\ Last(Peer(up)).Dst = f.Dst
                     /\ Last(Peer(up)).Tag = f.Tag
                     /\ Last(Peer(up)).Err = ""]_vars

\* C19: a message that arrives with Err set never makes the node produce
\* an error reply of its own: whatever the node writes while it handles
\* the message is the message itself, passed on, and a failure to pass it
\* on is swallowed.
C19_NoErrorForError ==
    [][\A c \in Conns :
          (Dispatches(c) /\ inq[c][1].Err # "")
              => \A d \in Conns :
                     inq'[d] # inq[d] /\ d # c
                         => inq'[d] = Append(inq[d], inq[c][1])]_vars

\* The node n makes a routing error of the frame f it has received: f is a
\* probe for a local function, which route() refuses with ErrFail (the
\* peer-gone case is a failed write), or f has no route at all.
MakesError(n, f) ==
    /\ f.Tag # 0 /\ f.Err = ""
    /\ ~(f.Tag < 0 /\ busyCheck(World, n, f))
    /\ ~(f.Dst = myAddr(n) /\ f.Tag \in DOMAIN tagMap[n])
    /\ \/ find_route(World, n, f.Dst) = NoConn
       \/ find_route(World, n, f.Dst) \in ExecConns /\ f.Tag < 0
       \/ /\ find_route(World, n, f.Dst) \in Conns
          /\ connState[Peer(find_route(World, n, f.Dst))] = "closed"

\* C20: whenever a node makes a routing error of a request (no route, or
\* the peer gone) and it has a route entry for the request's source or an
\* uplink, the error reply is written on that connection, with the
\* request's source as its Dst: it is not dropped in silence.
C20_ErrorReplySent ==
    [][\A c \in Conns :
          LET n == Owner(c)
              f == inq[c][1]
              back == IF find_route(World, n, f.Src) # NoConn
                      THEN find_route(World, n, f.Src) ELSE uplink[n]
          IN  (Dispatches(c) /\ MakesError(n, f) /\ back \in Conns
               /\ connState[back] = "open" /\ connState[Peer(back)] = "open")
                  => /\ Writes(Peer(back))
                     /\ Last(Peer(back)).Dst = f.Src
                     /\ Last(Peer(back)).Err # ""]_vars

\* The text holds neither the separator nor the end-of-frame byte.
Plain(text) == \A i \in DOMAIN text : text[i] \notin {US, EOT}

\* C14: for every message whose fields contain neither 0x1F nor 0x04,
\* decoding the bytes send writes for it, without the closing 0x04, gives
\* back the same Dst, Src, Err, Tag, Va1 and Va2, and no error.
C14_RoundTrip ==
    \A i \in DOMAIN wire.sent :
        LET m == wire.sent[i]
            b == Sprintf(m)
        IN  (Plain(m.Dst) /\ Plain(m.Src) /\ Plain(m.Err) /\ Plain(m.Va1)
             /\ Plain(m.Va2))
                => decMessage(SubSeq(b, 1, Len(b) - 1)) = [out |-> m, err |-> ""]

\* The reader has decoded a message with a negative tag of several digits
\* and then one with text in every field.
C14_Witness ==
    /\ Len(wire.got) = 2
    /\ wire.got[1].Tag < 0 - 9
    /\ \A fld \in {"Dst", "Src", "Err", "Va1", "Va2"} : wire.got[2][fld] # <<>>

\* C15: whatever the cutting of the frames' bytes into reads, the reader
\* hands the switchboard exactly the frames written, once each and in
\* order: at any moment the messages handed over are the first k frames,
\* and the bytes of the others are all still in pbuf and the stream, pbuf
\* holding no whole frame.
C15_FramesOnceInOrder ==
    /\ wire.err = ""
    /\ IndexByte(wire.pbuf, EOT, 1) = 0
    /\ \E k \in 0 .. Len(wire.sent) :
           /\ wire.got = SubSeq(wire.sent, 1, k)
           /\ Concat(SubSeq(wire.sent, 1, k)) \o wire.pbuf \o wire.stream
                  = Concat(wire.sent)

\* A read has ended one byte into the second frame: the first frame is
\* handed over, the byte is kept.
C15_Witness ==
    /\ Len(wire.sent) = 2 /\ Len(wire.got) = 1
    /\ Len(wire.pbuf) = 1 /\ wire.stream # <<>>

\* A write on c fails: this end or the peer's is closed.
WriteFails(c) == connState[c] = "closed" \/ connState[Peer(c)] = "closed"

\* C21: when the forwarding of a request (Err empty, tag positive) fails
\* with a write error on the outgoing connection, the node sends toward
\* the request's source a reply with Err "Connection closed.", the
\* request's tag and empty payloads.  (Stated where the node has a route
\* entry for the source and can write on it: C20.)
C21_ForwardFailsErrClosed ==
    [][\A c \in Conns :
          LET n == Owner(c)
              f == inq[c][1]
              out == find_route(World, n, f.Dst)
              back == find_route(World, n, f.Src)
          IN  (/\ Dispatches(c) /\ f.Err = "" /\ f.Tag > 0
               /\ ~(f.Dst = myAddr(n) /\ f.Tag \in DOMAIN tagMap[n])
               /\ out \in Conns /\ WriteFails(out)
               /\ back \in Conns /\ ~WriteFails(back))
                  => /\ Writes(Peer(back))
                     /\ Last(Peer(back)).Dst = f.Src
                     /\ Last(Peer(back)).Err = ErrClosed
                     /\ Last(Peer(back)).Tag = f.Tag
                     /\ Last(Peer(back)).Va1 = ""
                     /\ Last(Peer(back)).Va2 = ""]_vars

\* The absolute value of a tag.
Abs(t) == IF t < 0 THEN 0 - t ELSE t

\* C22: the reply made for an unroutable message with empty Err has Dst
\* the original Src, Src the original Dst, Va1 and Va2 empty, Err
\* "Request failed, service unavailable." and Tag the absolute value of
\* the original Tag: whatever the node writes in that step is that reply.
C22_FailReplyFields ==
    [][\A c \in Conns :
          LET n == Owner(c)
              f == inq[c][1]
          IN  (Dispatches(c) /\ Unroutable(n, f))
                  => \A d \in Conns \ {c} :
                         inq'[d] # inq[d]
                             => inq'[d] = Append(inq[d],
                                    [Dst |-> f.Src, Src |-> f.Dst,
                                     Err |-> ErrFail, Tag |-> Abs(f.Tag),
                                     Va1 |-> "", Va2 |-> ""])]_vars

\* C23: a local handler is invoked once per request it serves: a probe
\* starts no handler goroutine, and a goroutine whose request carries a
\* tag that is already busy does not go on to invoke the handler.
C23_HandlerOncePerRequest ==
    [][/\ \A c \in Conns :
              (Dispatches(c) /\ inq[c][1].Tag < 0) => tasks' = tasks
       /\ \A i \in 1 .. MaxTasks :
              (i \in DOMAIN tasks /\ tasks[i].dup) => ~ExecStep(i)]_vars

\* The handler goroutine i has marked its tag and has not yet removed the
\* mark.
Serving(i) == tasks[i].pc \in {"exec", "unsetBusy"} /\ ~tasks[i].dup

\* C24: a tag is in the busy set exactly while a handler goroutine for it
\* is in progress: the mark is there from before the handler starts until
\* after its reply is sent, and is gone afterwards.
C24_BusyIffServing ==
    \A n \in Nodes : \A t \in 1 .. MaxTag :
        alive[n] =>
            (((0 - t) \in DOMAIN tagMap[n])
                <=> \E i \in DOMAIN tasks :
                        /\ tasks[i].node = n /\ Serving(i)
                        /\ tasks[i].req.Tag = t)

\* The source of the request goroutine i serves (exec swaps it into Dst).
SourceOf(i) == IF tasks[i].pc = "unsetBusy" THEN tasks[i].req.Dst
               ELSE tasks[i].req.Src

\* C25: the duplicate-tag error is made only when the busy tag was entered
\* by the same source: a goroutine finds its tag busy only if a request of
\* the same source is being served under that tag, so that two callers
\* with the same tag are both served.
C25_DuplicatePerSource ==
    [][\A i \in 1 .. MaxTasks :
          FindsBusy(i) =>
              \E j \in DOMAIN tasks :
                  /\ j # i /\ Serving(j)
                  /\ tasks[j].req.Tag = tasks[i].req.Tag
                  /\ SourceOf(j) = tasks[i].req.Src]_vars

\* The handler of a request that came in on connection c is running in
\* goroutine i.
HandlerRunning(i, c) ==
    /\ i \in DOMAIN tasks /\ tasks[i].pc = "exec" /\ ~tasks[i].dup
    /\ tasks[i].req.conn = c /\ tasks[i].node = Owner(c)

\* Room for what one dispatch may start or write.
Room == Len(tasks) < MaxTasks /\ \A d \in Conns : Len(inq[d]) < MaxQueue

\* C26: while the handler of a request from connection c is running, the
\* reader of c is not held up by it: whenever a frame is waiting on c (a
\* probe for that request, another request, anything) the reader can take
\* it and dispatch it.
C26_ReaderNotBlocked ==
    \A c \in Conns : \A i \in 1 .. MaxTasks :
        (/\ HandlerRunning(i, c) /\ alive[Owner(c)]
         /\ reader[c] = "run" /\ inq[c] # <<>> /\ Room)
            => ENABLED Read(c)

\* A handler is running and a probe for its request is the next frame on
\* the connection the request came in on.
C26_Witness ==
    \E i \in DOMAIN tasks :
        /\ HandlerRunning(i, PUp) /\ reader[PUp] = "run" /\ Room
        /\ inq[PUp] # <<>>
        /\ inq[PUp][1].Tag = 0 - tasks[i].req.Tag

\* C27: an announcement received on connection o maps its Src to o in the
\* route table and is passed on, as it is, on the uplink exactly when there
\* is an uplink and it is not o; nothing is written on o or on any other
\* connection, and the request table and the handlers are left alone.
C27_Announcement ==
    [][\A o \in Conns :
          LET n == Owner(o)
              f == inq[o][1]
              up == uplink[n]
              fwd == up # NoConn /\ up # o
          IN  (Dispatches(o) /\ f.Tag = 0) =>
                  /\ connMap' = [connMap EXCEPT ![n][f.Src] = o]
                  /\ tagMap' = tagMap /\ tasks' = tasks /\ call' = call
                  /\ (fwd /\ ~WriteFails(up)) =>
                         inq'[Peer(up)] = Append(inq[Peer(up)], f)
                  /\ \A d \in Conns \ {o} :
                         inq'[d] # inq[d] => fwd /\ d = Peer(up)]_vars

\* The relay has mapped X to the accepted connection the announcement came
\* in on, and the announcement is on its way up.
C27_Witness ==
    /\ uplink[Broker] = <<"B", "P">> /\ connMap[Broker]["X"] = BC
    /\ \E i \in DOMAIN inq[<<"P", "B">>] :
           inq[<<"P", "B">>][i] = Frame(Msg("", "X", "", 0, "", "", NoConn))

\* The announcement of a name or an address.
Announcement(a) == Frame(Msg("", a, "", 0, "", "", NoConn))

\* C28: a reader that starts on a connection, the uplink or one a broker
\* without uplink accepted, first writes the announcement of this node's
\* address and then one announcement for every name the route table holds
\* at that moment, and has not taken any received frame before.
C28_StartupAnnouncements ==
    [][\A c \in Conns :
          LET n == Owner(c)
              q == Peer(c)
              k == Len(inq[q])
          IN  (reader[c] = "start" /\ reader'[c] = "run" /\ ~WriteFails(c)) =>
                  /\ inq'[c] = inq[c]
                  /\ Len(inq'[q]) = k + 1 + Cardinality(Known(n))
                  /\ SubSeq(inq'[q], 1, k) = inq[q]
                  /\ inq'[q][k + 1] = Announcement(myAddr(n))
                  /\ {inq'[q][j] : j \in (k + 2) .. Len(inq'[q])}
                         = {Announcement(a) : a \in Known(n)}]_vars

\* Call k allocates its tag and sends its request, in this step.
SendsRequest(k) ==
    /\ call[k].pc = "getBucket" /\ call'[k].pc = "wait"
    /\ call'[k].tag # call[k].tag

\* C29: a Call made right after Dial returns waits until the node is
\* ready: it allocates no tag and writes no request on the uplink before
\* the uplink's reader has written its startup announcement of the address
\* there.
C29_CallAfterAnnouncement ==
    [][\A k \in Calls :
          (/\ SendsRequest(k) /\ call[k].dest = uplink[Caller]
           /\ Writes(Peer(uplink[Caller]))) =>
              reader[uplink[Caller]] # "start"]_vars

\* Call k picks its outbound connection, in this step.
PicksDest(k) == call[k].pc = "idle" /\ call'[k].pc \in {"genTag", "returned"}

\* C30: Call sends on the connection the route table has for the called
\* name when there is one, else on the uplink; with neither it returns
\* ErrClosed, and then has written nothing and left no entry in the request
\* table.
C30_DestOrder ==
    [][\A k \in Calls :
          PicksDest(k) =>
              LET byName == connMap[Caller][call'[k].name]
                  up == uplink[Caller]
              IN  IF byName # NoConn
                  THEN call'[k].pc = "genTag" /\ call'[k].dest = byName
                  ELSE IF up # NoConn
                  THEN call'[k].pc = "genTag" /\ call'[k].dest = up
                  ELSE /\ call'[k].pc = "returned"
                       /\ call'[k].ret = Ret("sentinel", ErrClosed)
                       /\ inq' = inq /\ tagMap' = tagMap]_vars

\* ------------------------------------------------- Listen on one path
\* Every node calls Listen on the same socket path.  sockets.file is what
\* the path leads to: nothing, the file a broker that is gone has left
\* ("stale"), or the listener of the node that bound it.
InitListen ==
    /\ alive = [n \in Nodes |-> TRUE]
    /\ listening = [n \in Nodes |-> FALSE]
    /\ uplink = [n \in Nodes |-> NoConn]
    /\ connMap = [n \in Nodes |-> [a \in Names |-> NoConn]]
    /\ routes = [c \in AllConns |-> {}]
    /\ connState = [c \in Conns |-> "none"]
    /\ inq = [c \in Conns |-> <<>>]
    /\ reader = [c \in Conns |-> "off"]
    /\ tagMap = [n \in Nodes |-> EmptyMap]
    /\ tagMapLock = [n \in Nodes |-> "free"]
    /\ tasks = <<>>
    /\ call = [k \in Calls |-> IdleCall]
    /\ injected = 0
    /\ wire = NoWire
    /\ \E f \in {"none", "stale"} : sockets = [NoSockets EXCEPT !.file = f]
    /\ limiter = NoLimiter /\ sendLock = NoSendLock

\* r.open(socketf) at the head of Listen: the dial reaches a listener and
\* the node serves as its client, or fails with "no such file or
\* directory" or "connection refused" and Listen goes on.
ListenOpen(n) ==
    /\ sockets.pc[n] = "idle"
    /\ sockets' = IF sockets.file \in Nodes
                  THEN [sockets EXCEPT !.pc[n] = "client",
                                       !.server[n] = sockets.file]
                  ELSE [sockets EXCEPT !.pc[n] = "ReadDir"]
    /\ UNCHANGED <<alive, listening, uplink, connMap, routes, connState, inq,
                   reader, tagMap, tagMapLock, tasks, call, injected, wire,
                   limiter, sendLock>>

\* ioutil.ReadDir(path): the files there at this moment.
ListenReadDir(n) ==
    /\ sockets.pc[n] = "ReadDir"
    /\ sockets' = [sockets EXCEPT !.pc[n] = "Remove",
                                  !.seen[n] = sockets.file # "none"]
    /\ UNCHANGED <<alive, listening, uplink, connMap, routes, connState, inq,
                   reader, tagMap, tagMapLock, tasks, call, injected, wire,
                   limiter, sendLock>>

\* os.Remove of every listed file whose name contains the socket's name:
\* the path is unlinked, whoever made the file now there.
ListenRemove(n) ==
    /\ sockets.pc[n] = "Remove"
    /\ sockets' = [sockets EXCEPT !.pc[n] = "Listen",
                                  !.file = IF sockets.seen[n] THEN "none"
                                           ELSE @]
    /\ UNCHANGED <<alive, listening, uplink, connMap, routes, connState, inq,
                   reader, tagMap, tagMapLock, tasks, call, injected, wire,
                   limiter, sendLock>>

\* net.Listen("unix", socketf): binds the path when nothing is there and
\* the accept loop starts; "address already in use" otherwise, which
\* Listen returns.
ListenBind(n) ==
    /\ sockets.pc[n] = "Listen"
    /\ sockets' = IF sockets.file = "none"
                  THEN [sockets EXCEPT !.pc[n] = "accept", !.file = n]
                  ELSE [sockets EXCEPT !.pc[n] = "failed"]
    /\ UNCHANGED <<alive, listening, uplink, connMap, routes, connState, inq,
                   reader, tagMap, tagMapLock, tasks, call, injected, wire,
                   limiter, sendLock>>

NextListen ==
    \E n \in Nodes :
        ListenOpen(n) \/ ListenReadDir(n) \/ ListenRemove(n) \/ ListenBind(n)

SpecListen == InitListen /\ [][NextListen]_vars

\* The nodes in the accept loop.
Brokers == {n \in Nodes : sockets.pc[n] = "accept"}

\* C31: of the nodes that call Listen on one path at most one is in the
\* accept loop at any time, and when all of them are through, one is the
\* broker and every other one is connected to it as a client.
C31_OneBroker ==
    /\ Cardinality(Brokers) <= 1
    /\ (\A n \in Nodes : sockets.pc[n] \in {"accept", "client", "failed"})
           => \E b \in Nodes :
                  /\ Brokers = {b}
                  /\ \A n \in Nodes \ {b} :
                         sockets.pc[n] = "client" /\ sockets.server[n] = b

\* ---------------------------------------------------- the accept loop
\* The broker's accept loop and the readers it starts.  r.limiter is a
\* channel of tokens; limiter.cur is the channel the field holds,
\* tokens[ch] what channel ch holds, giving[ch] the reader goroutines that are sending a token on ch.
InitLimit ==
    /\ alive = [n \in Nodes |-> n = Broker]
    /\ listening = [n \in Nodes |-> n = Broker]
    /\ uplink = [n \in Nodes |-> NoConn]
    /\ connMap = [n \in Nodes |-> [a \in Names |-> NoConn]]
    /\ routes = [c \in AllConns |-> {}]
    /\ connState = [c \in Conns |-> "none"]
    /\ inq = [c \in Conns |-> <<>>]
    /\ reader = [c \in Conns |-> "off"]
    /\ tagMap = [n \in Nodes |-> EmptyMap]
    /\ tagMapLock = [n \in Nodes |-> "free"]
    /\ tasks = <<>>
    /\ call = [k \in Calls |-> IdleCall]
    /\ injected = 0
    /\ wire = NoWire
    /\ sockets = NoSockets /\ sendLock = NoSendLock
    /\ limiter = [NoLimiter EXCEPT !.cap[1] = Limit, !.tokens[1] = Limit,
                                   !.loop = "load"]

LimitStep(l) ==
    /\ limiter' = l
    /\ UNCHANGED <<alive, listening, uplink, connMap, routes, connState, inq,
                   reader, tagMap, tagMapLock, tasks, call, injected, wire,
                   sockets, sendLock>>

\* `<-r.limiter`, first the operand: the channel the field holds now.
LoopLoad ==
    /\ limiter.loop = "load"
    /\ LimitStep([limiter EXCEPT !.loop = "recv", !.on = limiter.cur])

\* The receive: blocks until that channel has a token.
LoopRecv ==
    /\ limiter.loop = "recv" /\ limiter.tokens[limiter.on] > 0
    /\ LimitStep([limiter EXCEPT !.loop = "Accept",
                                 !.tokens[limiter.on] = @ - 1])

\* l.Accept returns a connection; its reader goroutine starts.
LoopAccept ==
    /\ limiter.loop = "Accept" /\ limiter.accepted < MaxAccepts
    /\ LimitStep([limiter EXCEPT !.loop = "load", !.readers = @ + 1,
                                 !.accepted = @ + 1])

\* A reader returns, with ErrClosed or another error: the goroutine goes
\* to `r.limiter <- struct{}{}`, on the channel the field holds now.
ReaderReturn ==
    /\ limiter.readers > 0
    /\ LimitStep([limiter EXCEPT !.readers = @ - 1,
                                 !.giving[limiter.cur] = @ + 1])

\* The send: blocks while the channel is full.
GiveToken(ch) ==
    /\ limiter.giving[ch] > 0 /\ limiter.tokens[ch] < limiter.cap[ch]
    /\ LimitStep([limiter EXCEPT !.giving[ch] = @ - 1, !.tokens[ch] = @ + 1])

\* SetLimiter(connlimit): a new channel of connlimit tokens replaces the
\* field's.  The limit is set again or raised, never lowered below what
\* New set, so that the readers running at the call are within it.
SetLimiter(connlimit) ==
    /\ limiter.resized < MaxResize
    /\ LimitStep([limiter EXCEPT !.cur = @ + 1,
                                 !.cap[limiter.cur + 1] = connlimit,
                                 !.tokens[limiter.cur + 1] = connlimit,
                                 !.resized = @ + 1])

NextLimit ==
    \/ LoopLoad \/ LoopRecv \/ LoopAccept
    \/ ReaderReturn
    \/ \E ch \in Chans : GiveToken(ch)
    \/ \E connlimit \in Limit .. (Limit + 1) : SetLimiter(connlimit)

SpecLimit == InitLimit /\ [][NextLimit]_vars

\* C32: no connection is accepted that would make the running readers
\* more than the configured limit, and an accept loop that waits for a
\* token always has one coming, from a reader that runs or one that is
\* giving its token back on the channel the loop waits on; also when
\* SetLimiter is called with connections open.
C32_ConnectionLimit ==
    /\ [][limiter'.readers > limiter.readers =>
               limiter'.readers <= limiter.cap[limiter.cur]]_vars
    /\ [](limiter.loop = "recv" /\ limiter.tokens[limiter.on] = 0 =>
               limiter.readers + limiter.giving[limiter.on] > 0)

\* ------------------------------------------- the senders of a connection
\* One connection and the goroutines that send on it at the same time.
\* What each sends, as it is on the wire.
FrameOf(x) ==
    IF x = "reader" THEN WireMsg(<<"x">>, <<"a">>, <<>>, 3, <<"o">>, <<>>)
    ELSE IF x = "task" THEN WireMsg(<<"a">>, <<"x">>, <<"b">>, 7, <<>>, <<>>)
    ELSE WireMsg(<<"x">>, <<"b">>, <<>>, 0 - 7, <<>>, <<>>)

InitSend ==
    /\ alive = [n \in Nodes |-> n = Broker]
    /\ listening = [n \in Nodes |-> FALSE]
    /\ uplink = [n \in Nodes |-> NoConn]
    /\ connMap = [n \in Nodes |-> [a \in Names |-> NoConn]]
    /\ routes = [c \in AllConns |-> {}]
    /\ connState = [c \in Conns |-> "none"]
    /\ inq = [c \in Conns |-> <<>>]
    /\ reader = [c \in Conns |-> "off"]
    /\ tagMap = [n \in Nodes |-> EmptyMap]
    /\ tagMapLock = [n \in Nodes |-> "free"]
    /\ tasks = <<>>
    /\ call = [k \in Calls |-> IdleCall]
    /\ injected = 0
    /\ wire = NoWire
    /\ sockets = NoSockets /\ limiter = NoLimiter
    /\ \E S \in (SUBSET Senders) \ {{}} :
           sendLock = [NoSendLock EXCEPT
                          !.pc = [x \in Senders |->
                                     IF x \in S THEN "Lock" ELSE "off"],
                          !.left = [x \in Senders |->
                                       IF x \in S THEN Sprintf(FrameOf(x))
                                       ELSE <<>>]]

SendStep(l) ==
    /\ sendLock' = l
    /\ UNCHANGED <<alive, listening, uplink, connMap, routes, connState, inq,
                   reader, tagMap, tagMapLock, tasks, call, injected, wire,
                   sockets, limiter>>

\* A mutex that lets everyone in.
Lock_open(holder) == TRUE
\* sync.Mutex.Lock returns when nobody holds the mutex.
Lock(holder) == holder = "none"

\* c.sendLock.Lock()
SendLock(x) ==
    /\ sendLock.pc[x] = "Lock" /\ Lock(sendLock.holder)
    /\ SendStep([sendLock EXCEPT !.holder = x, !.pc[x] = "Write"])

\* c.conn.Write: the stream takes the bytes, sz of them at a time.
SendWrite(x, sz) ==
    /\ sendLock.pc[x] = "Write" /\ sz \in 1 .. Len(sendLock.left[x])
    /\ LET rest == SubSeq(sendLock.left[x], sz + 1, Len(sendLock.left[x]))
       IN  SendStep([sendLock EXCEPT
                        !.stream = @ \o SubSeq(sendLock.left[x], 1, sz),
                        !.left[x] = rest,
                        !.pc[x] = IF rest = <<>> THEN "Unlock" ELSE "Write"])

\* The deferred c.sendLock.Unlock().
SendUnlock(x) ==
    /\ sendLock.pc[x] = "Unlock"
    /\ SendStep([sendLock EXCEPT !.holder = "none", !.pc[x] = "done"])

\* Bytes one write call hands over at most.
MaxChunk == 12
NextSend ==
    \E x \in Senders :
        \/ SendLock(x)
        \/ \E sz \in 1 .. MaxChunk : SendWrite(x, sz)
        \/ SendUnlock(x)

SpecSend == InitSend /\ [][NextSend]_vars

ReadsBadFrame(c) ==
    /\ reader[c] = "run" /\ inq[c] # <<>> /\ Len(inq'[c]) < Len(inq[c])
    /\ inq[c][1].Tag \notin (0 - MaxTag) .. MaxTag

\* C34: when a received frame does not decode, the reader dispatches
\* nothing more from the connection, the frames buffered behind the bad one
\* included: it removes the connection's routes from the table, closes the
\* connection and ends, for good.
C34_DecodeErrorEndsReader ==
    [][\A c \in Conns :
          /\ ReadsBadFrame(c) =>
                 /\ reader'[c] = "done" /\ connState'[c] = "closed"
                 /\ inq'[c] = <<>>
                 /\ \A a \in routes[c] : connMap'[Owner(c)][a] = NoConn
                 /\ \A d \in Conns \ {c} : inq'[d] = inq[d]
                 /\ tasks' = tasks /\ tagMap' = tagMap
          /\ reader[c] = "done" => reader'[c] = "done" /\ inq'[c] = <<>>]_vars

\* A reader has ended on a connection that had announced names and whose
\* peer has not closed: it ended on a frame that did not decode.
C34_Witness ==
    \E c \in HubConns :
        /\ reader[c] = "done" /\ connState[c] = "closed"
        /\ routes[c] # {} /\ connState[Peer(c)] = "open"

\* -------------------------------------------------- decMessage alone
\* decMessage applied to byte strings of one to MaxParts parts, the parts
\* empty, a number or not a number.  wire.stream is the input, wire.got
\* and wire.err what decMessage returned.
RECURSIVE Join(_)
Join(parts) ==
    IF Len(parts) = 1 THEN parts[1]
    ELSE parts[1] \o <<US>> \o Join(Tail(parts))

DecParts == {<<>>, <<"7">>, <<"x">>}
DecInputs == {Join(parts) : parts \in UNION {[1 .. n -> DecParts] :
                                                n \in 1 .. MaxParts}}

InitDec ==
    /\ alive = [n \in Nodes |-> n = Caller]
    /\ listening = [n \in Nodes |-> FALSE]
    /\ uplink = [n \in Nodes |-> NoConn]
    /\ connMap = [n \in Nodes |-> [a \in Names |-> NoConn]]
    /\ routes = [c \in AllConns |-> {}]
    /\ connState = [c \in Conns |-> "none"]
    /\ inq = [c \in Conns |-> <<>>]
    /\ reader = [c \in Conns |-> "off"]
    /\ tagMap = [n \in Nodes |-> EmptyMap]
    /\ tagMapLock = [n \in Nodes |-> "free"]
    /\ tasks = <<>>
    /\ call = [k \in Calls |-> IdleCall]
    /\ injected = 0
    /\ HostIdle
    /\ \E in \in DecInputs : wire = [NoWire EXCEPT !.stream = in]

\* request, err = decMessage(pbuf[0:s])
Decode ==
    /\ wire.got = <<>> /\ wire.err = ""
    /\ LET d == decMessage(wire.stream)
       IN  wire' = [wire EXCEPT !.err = d.err,
                                !.got = IF d.err = "" THEN <<d.out>> ELSE <<>>]
    /\ UNCHANGED <<alive, listening, uplink, connMap, routes, connState, inq,
                   reader, tagMap, tagMapLock, tasks, call, injected, host>>

SpecDec == InitDec /\ [][Decode]_vars

\* The parts the separators cut the bytes into.
NumParts(in) == Cardinality({i \in DOMAIN in : in[i] = US}) + 1

\* C35: decMessage makes a message only of bytes that the separators cut
\* into exactly six parts; fewer or more are refused with an error.
C35_ExactlySixParts ==
    wire.got # <<>> => NumParts(wire.stream) = 6

\* The connection c is closed by its reader, in this step.
Closes(c) == reader[c] # "done" /\ reader'[c] = "done" /\ alive'[Owner(c)]

\* C36: closing a connection c takes out of the route table only the
\* entries that resolve to c at that moment: a name first announced over c
\* and since announced over another connection, or registered as a local
\* function, stays routable through the connection that has it now.
C36_CloseKeepsOthers ==
    [][\A c \in Conns :
          Closes(c) =>
              \A a \in Names :
                  connMap[Owner(c)][a] # c =>
                      connMap'[Owner(c)][a] = connMap[Owner(c)][a]]_vars

\* C37: handing a reply to a waiting Call never blocks for good: the
\* reader that signals the bucket's done channel under tagMapLock always
\* finds the Call of the bucket receiving, whatever the Call's timeout
\* branch has done meanwhile, so the lock is released again.
C37_InterceptNeverBlocks ==
    \A n \in Nodes :
        /\ tagMapLock[n] # "intercept"
        /\ \A c \in Conns : Owner(c) = n => reader[c] # "blocked"

\* C38: a node sends at most one reply frame for a request it received,
\* the handler's reply or an error made for it: no goroutine started for a
\* request writes a second frame toward the requester, however probes,
\* requests under a busy tag and the end of the handler interleave.
C38_OneReplyPerRequest ==
    \A i \in DOMAIN tasks : tasks[i].replies <= 1

\* C39: once the reader of a node's uplink has ended and closed it, the
\* node does not use it any more: the uplink reference is cleared, and a
\* Call that finds no other route selects no connection and returns
\* ErrClosed.
C39_ClosedUplinkCleared ==
    /\ [](\A n \in Nodes :
              (alive[n] /\ uplink[n] # NoConn) => reader[uplink[n]] # "done")
    /\ [][\A k \in Calls :
              (/\ PicksDest(k) /\ uplink[Caller] # NoConn
               /\ reader[uplink[Caller]] = "done"
               /\ connMap[Caller][call'[k].name] = NoConn) =>
                  /\ call'[k].pc = "returned"
                  /\ call'[k].ret = Ret("sentinel", ErrClosed)]_vars

\* The switchboard of n relays the frame f: it is neither dropped as busy
\* nor a reply to a Call of n, and its Dst resolves to a stream.
Relays(n, f) ==
    /\ f.Tag # 0
    /\ ~(f.Tag < 0 /\ busyCheck(World, n, f))
    /\ ~(f.Dst = myAddr(n) /\ f.Tag \in DOMAIN tagMap[n])
    /\ find_route(World, n, f.Dst) \in Conns
    /\ ~WriteFails(find_route(World, n, f.Dst))

\* C40: a relayed frame is written as it was received, Dst, Src, Err, Tag,
\* Va1 and Va2 the same; the relaying node never puts its own address in
\* the place of the frame's Src.
C40_RelayUnchanged ==
    [][\A c \in Conns :
          LET n == Owner(c)
              f == inq[c][1]
              out == Peer(find_route(World, n, f.Dst))
          IN  (Dispatches(c) /\ Relays(n, f)) =>
                  Writes(out) /\ Last(out) = f]_vars
====
